---------------------------- MODULE Spec2Model ----------------------------
(***************************************************************************)
(* Model of the metric-derivation and comparison engine of the channel     *)
(* analytics dashboard (src/dashboard_508.py).                             *)
(*                                                                         *)
(* The script is re-executed from top to bottom on every user interaction  *)
(* (a Streamlit rerun).  Every action below is one interaction followed by *)
(* the complete rerun: normalisation of the loaded table, the filter of    *)
(* the active tab, the derived columns, the entity selection, the peer     *)
(* group and the recommendation list.                                      *)
(*                                                                         *)
(* Numbers: counts and ages are integers; every derived ratio is an exact  *)
(* rational <<numerator, denominator>> in lowest terms with a positive     *)
(* denominator.  A missing value is NaN.  A text is a sequence of words,   *)
(* and the Python substring test  kw in text  is word membership.          *)
(***************************************************************************)
EXTENDS Integers, Sequences, FiniteSets

\* ------------------------------------------------------------------ bounds
MaxRows == 2        \* rows of an uploaded table (specification Spec)
MaxPeers == 3       \* rows of an uploaded table (SpecTips, SpecUploads), peers (SpecEngine)
MaxCatRows == 11    \* channels of the first category of a table (SpecCat)
MaxCategories == 22 \* categories of a grouped table (SpecRank)
MaxChannels == 17   \* channels of a table (SpecSponsor)
MaxGeoCategories == 12 \* categories of a table (SpecGeo)

\* ------------------------------------------------------- program constants
Inf == 2147483647   \* float('inf'), the last bin edge of pd.cut
PeerAgeWindow == 3  \* the +-3 years of the peer window
LowUploadLimit == 4 \* rule 4: fewer than 4 uploads

NaN == "NaN"

\* ------------------------------------------------------ sequences and sets
RECURSIVE SelectSeqIdx(_, _, _)
\* the positions i of s, in order, with keep[i]
SelectSeqIdx(s, keep, i) ==
    IF i > Len(s) THEN <<>>
    ELSE (IF keep[i] THEN <<s[i]>> ELSE <<>>) \o SelectSeqIdx(s, keep, i + 1)

Range(s) == {s[i] : i \in 1..Len(s)}

SeqsUpTo(S, n) == UNION {[1..k -> S] : k \in 1..n}

\* text membership: the Python test  kw in text
Contains(text, kw) == \E i \in 1..Len(text) : text[i] = kw

\* ----------------------------------------------------------------rationals
RECURSIVE GCD(_, _)
GCD(a, b) == IF b = 0 THEN a ELSE GCD(b, a % b)

Abs(x) == IF x < 0 THEN -x ELSE x

\* n/d in lowest terms; undefined (NaN) when d = 0
Rat(n, d) ==
    LET g == GCD(Abs(n), Abs(d))
        s == IF d < 0 THEN -1 ELSE 1
    IN  IF d = 0 THEN <<0, 0>> ELSE <<s * (n \div g), s * (d \div g)>>

Zero == <<0, 1>>
\* the undefined number (float NaN): no denominator
RNaN == <<0, 0>>
IsNaN(a) == a[2] = 0
RInt(n) == <<n, 1>>
RAdd(a, b) == Rat(a[1] * b[2] + b[1] * a[2], a[2] * b[2])
RSub(a, b) == IF a = b /\ a[2] # 0 THEN <<0, 1>>
              ELSE Rat(a[1] * b[2] - b[1] * a[2], a[2] * b[2])
RMul(a, b) == Rat(a[1] * b[1], a[2] * b[2])
RDiv(a, b) == Rat(a[1] * b[2], a[2] * b[1])
RLess(a, b) == a # b /\ a[1] * b[2] < b[1] * a[2]
RLeq(a, b) == (a = b /\ a[2] # 0) \/ a[1] * b[2] <= b[1] * a[2]
RAbs(a) == <<Abs(a[1]), a[2]>>


\* round-half-even of n/d to an integer (d > 0), as Python's format does
RoundHalfEven(n, d) ==
    LET a == Abs(n)
        q == a \div d
        r == a % d
        m == IF 2 * r < d THEN q
             ELSE IF 2 * r > d THEN q + 1
             ELSE IF q % 2 = 0 THEN q ELSE q + 1
    IN  IF n < 0 THEN -m ELSE m

\* the number printed by f"{x:.kf}", in units of 10^-k  (scale = 10^k)
Fmt(x, scale) == RoundHalfEven(x[1] * scale, x[2])

RECURSIVE Insert(_, _)
\* x inserted into the ascending sequence s
Insert(x, s) ==
    IF s = <<>> THEN <<x>>
    ELSE IF RLeq(x, Head(s)) THEN <<x>> \o s
    ELSE <<Head(s)>> \o Insert(x, Tail(s))

RECURSIVE SortSeq(_)
SortSeq(s) == IF s = <<>> THEN <<>> ELSE Insert(Head(s), SortSeq(Tail(s)))

\* pandas Series.median(): NaN for an empty series, the middle value, or the
\* mean of the two middle values
Median(s) ==
    LET n == Len(s)
        o == SortSeq(s)
    IN  IF n = 0 THEN RNaN
        ELSE IF n % 2 = 1 THEN o[(n + 1) \div 2]
        ELSE RDiv(RAdd(o[n \div 2], o[n \div 2 + 1]), RInt(2))

Column(t, f) == [i \in 1..Len(t) |-> t[i][f]]
IntColumn(t, f) == [i \in 1..Len(t) |-> RInt(t[i][f])]

\* Series.unique(): the values in order of first appearance
RECURSIVE Unique(_)
Unique(s) ==
    IF s = <<>> THEN <<>>
    ELSE LET u == Unique(SubSeq(s, 1, Len(s) - 1))
             x == s[Len(s)]
         IN  IF x \in Range(u) THEN u ELSE Append(u, x)

Min(a, b) == IF a <= b THEN a ELSE b
MinOf(S) == CHOOSE x \in S : \A y \in S : x <= y
MaxOf(S) == CHOOSE x \in S : \A y \in S : x >= y

RECURSIVE RSum(_)
RSum(s) == IF s = <<>> THEN <<0, 1>> ELSE RAdd(Head(s), RSum(Tail(s)))

\* Series.mean(): the NaN entries are skipped; NaN when nothing is left
Mean(s) ==
    LET kept == SelectSeqIdx(s, [i \in 1..Len(s) |-> s[i][2] # 0], 1)
    IN  IF kept = <<>> THEN <<0, 0>> ELSE RDiv(RSum(kept), <<Len(kept), 1>>)

\* -------------------------------------------------------------- ingestion
\* COUNTRY_MAP, restricted to the entries the modelled tables can meet
COUNTRY_MAP ==
    [k \in {"US", "GB", "Unknown"} |->
        CASE k = "US" -> "United States"
          [] k = "GB" -> "United Kingdom"
          [] k = "Unknown" -> "Unknown"]

\* COUNTRY_MAP.get(x, x if pd.notna(x) else 'Unknown')
country_name(x) ==
    IF x \in DOMAIN COUNTRY_MAP THEN COUNTRY_MAP[x]
    ELSE IF x # NaN THEN x ELSE "Unknown"

\* pd.cut(x, bins, labels, right, include_lowest): the bin is found with
\* searchsorted; a value outside every bin is NaN
Cut(x, bins, labels, right, include_lowest) ==
    LET below == IF right THEN {i \in 1..Len(bins) : bins[i] < x}
                 ELSE {i \in 1..Len(bins) : bins[i] <= x}
        ids == IF include_lowest /\ x = bins[1] THEN 1 ELSE Cardinality(below)
    IN  IF ids = 0 \/ ids = Len(bins) THEN NaN ELSE labels[ids]

TierBins == <<0, 1000, 10000, 100000, 1000000, Inf>>
TierLabels == <<"0-1K", "1K-10K", "10K-100K", "100K-1M", "1M+">>

\* pd.cut(df['subscriber_count'], bins=[...], labels=[...])  (right=True,
\* include_lowest=False are pd.cut's defaults)
subscriber_tier(count) == Cut(count, TierBins, TierLabels, TRUE, FALSE)

RawFields ==
    {"channel_name", "category", "country", "subscriber_count", "view_count",
     "video_count", "videos_last_30_days", "views_last_30_days",
     "channel_age_years", "video_count_log1p"}

\* one raw row with the two columns added at load time
NormalizeRow(r) ==
    [f \in RawFields \cup {"country_name", "subscriber_tier"} |->
        IF f = "country_name" THEN country_name(r.country)
        ELSE IF f = "subscriber_tier" THEN subscriber_tier(r.subscriber_count)
        ELSE r[f]]

Normalize(raw) == [i \in 1..Len(raw) |-> NormalizeRow(raw[i])]

\* with_col(r, f, v): the row r with column f set to v
WithCol(r, f, v) == [g \in DOMAIN r \cup {f} |-> IF g = f THEN v ELSE r[g]]


WarningListLimit == 5   \* unmapped[:5]

\* df[~df['country'].isin(COUNTRY_MAP.keys()) & (df['country'] != 'Unknown')]
\*   ['country'].unique(): a missing country (NaN) is in no key set and
\* differs from 'Unknown', so it is among the unmapped values
Unmapped(d) ==
    LET c == Column(d, "country")
    IN  Unique(SelectSeqIdx(c,
            [i \in 1..Len(c) |-> c[i] \notin DOMAIN COUNTRY_MAP /\ c[i] # "Unknown"], 1))

\* the codes the warning lists: unmapped[:5]
WarningListed(d) == SubSeq(Unmapped(d), 1, Min(WarningListLimit, Len(Unmapped(d))))

\* ', '.join(unmapped[:5]) raises TypeError when an item is no string (NaN)
JoinRaises(items) == NaN \in Range(items)

\* the load ends in an exception at the warning
LoadRaises(d) == Len(Unmapped(d)) > 0 /\ JoinRaises(WarningListed(d))

\* the warning of the load: how many unmapped codes, and the codes listed
\* (<<>>: no warning)
LoadWarning(d) ==
    IF Len(Unmapped(d)) > 0 /\ ~LoadRaises(d)
    THEN <<[count |-> Len(Unmapped(d)), listed |-> WarningListed(d)]>>
    ELSE <<>>

\* ---------------------------------------------------- filters of the tabs
\* [k for k,v in COUNTRY_MAP.items() if v in t1_cntry]
cntry_codes(cntry) == {k \in DOMAIN COUNTRY_MAP : COUNTRY_MAP[k] \in cntry}

\* df[...] with a boolean mask: the rows of t, in order, that are in keep
Mask(t, keep) == SelectSeqIdx(t, [i \in 1..Len(t) |-> t[i] \in keep], 1)

FilterCat(t, cat) ==
    IF cat # {} THEN LET In(r) == r.category \in cat IN Mask(t, {x \in Range(t) : In(x)}) ELSE t

FilterCntry(t, cntry) ==
    LET codes == cntry_codes(cntry)
        In(r) == r.country \in codes
    IN  IF codes # {} THEN Mask(t, {x \in Range(t) : In(x)}) ELSE t

FilterSub(t, sub) ==
    IF sub # {} THEN LET In(r) == r.subscriber_tier \in sub IN Mask(t, {x \in Range(t) : In(x)}) ELSE t

\* FilterAge with the upper end of the range left out
FilterAge_UpperExclusive(t, age) ==
    LET In(r) == r.channel_age_years >= age[1] /\ r.channel_age_years < age[2]
    IN  Mask(t, {x \in Range(t) : In(x)})

FilterAge(t, age) ==
    LET In(r) == r.channel_age_years >= age[1] /\ r.channel_age_years <= age[2]
    IN  Mask(t, {x \in Range(t) : In(x)})

\* --------------------------------------------- derived columns of tab 1
\* growth_boost_score without the guard on subscriber_count
growth_boost_score_Unguarded(r) ==
    RAdd(RMul(Rat(7, 10), Rat(r.views_last_30_days, r.subscriber_count)),
         RMul(Rat(3, 10), Rat(r.views_last_30_days, r.view_count + 1)))

growth_boost_score(r) ==
    LET s == IF r.subscriber_count > 0 THEN r.subscriber_count ELSE 1
    IN  RAdd(RMul(Rat(7, 10), Rat(r.views_last_30_days, s)),
             RMul(Rat(3, 10), Rat(r.views_last_30_days, r.view_count + 1)))

\* views_per_upload as the plain quotient
views_per_upload_Unguarded(r) == Rat(r.views_last_30_days, r.videos_last_30_days)

\* views/uploads of the last 30 days, the views themselves without uploads
views_per_upload(r) ==
    IF r.videos_last_30_days > 0
    THEN Rat(r.views_last_30_days, r.videos_last_30_days)
    ELSE RInt(r.views_last_30_days)

audience_interest_rate(r) ==
    RMul(Rat(r.views_last_30_days, r.subscriber_count + 1), RInt(100))

DeriveT1(r) ==
    WithCol(WithCol(WithCol(r,
        "growth_boost_score", growth_boost_score(r)),
        "views_per_upload", views_per_upload(r)),
        "audience_interest_rate", audience_interest_rate(r))

\* df_t1 of the Existing Creators tab: the copy of df, filtered, with the
\* three derived columns
MakeDfT1(d, cat, cntry, age) ==
    LET f == FilterAge(FilterCntry(FilterCat(d, cat), cntry), age)
    IN  [i \in 1..Len(f) |-> DeriveT1(f[i])]

\* df_t2 of the New Creators tab
MakeDfT2(d, cat, cntry, sub, age) ==
    FilterAge(FilterSub(FilterCntry(FilterCat(d, cat), cntry), sub), age)

cost_effectiveness(r) ==
    IF IsNaN(r.video_count_log1p) THEN RNaN
    ELSE RMul(Rat(r.views_last_30_days + 1, r.subscriber_count + 1),
              RDiv(RInt(1), RAdd(r.video_count_log1p, RInt(1))))

\* df_t3 of the Marketers tab (no age filter), with cost_effectiveness
MakeDfT3(d, cat, cntry) ==
    LET f == FilterCntry(FilterCat(d, cat), cntry)
    IN  [i \in 1..Len(f) |-> WithCol(f[i], "cost_effectiveness", cost_effectiveness(f[i]))]


\* ------------------------------------------------ entity and peer group
ChannelOptions(t) == Unique(Column(t, "channel_name"))

\* df_t1[df_t1['channel_name']==sel_ch].iloc[0]
SelR(t, ch) ==
    LET Is(r) == r.channel_name = ch IN Mask(t, {x \in Range(t) : Is(x)})[1]

Max(a, b) == IF a >= b THEN a ELSE b

\* Peers with the window age-3 .. age+3, not cut off at zero
Peers_Unclamped(t, r) ==
    LET lo == r.channel_age_years - PeerAgeWindow
        hi == r.channel_age_years + PeerAgeWindow
        InWindow(q) == /\ q.category = r.category
                       /\ q.channel_age_years >= lo
                       /\ q.channel_age_years <= hi
        SameCat(q) == q.category = r.category
        windowed == Mask(t, {x \in Range(t) : InWindow(x)})
    IN  IF windowed = <<>> THEN Mask(t, {x \in Range(t) : SameCat(x)}) ELSE windowed

\* Peers with the lower end of the window excluded
Peers_ExclusiveLow(t, r) ==
    LET lo == Max(0, r.channel_age_years - PeerAgeWindow)
        hi == r.channel_age_years + PeerAgeWindow
        InWindow(q) == /\ q.category = r.category
                       /\ q.channel_age_years > lo
                       /\ q.channel_age_years <= hi
        SameCat(q) == q.category = r.category
        windowed == Mask(t, {x \in Range(t) : InWindow(x)})
    IN  IF windowed = <<>> THEN Mask(t, {x \in Range(t) : SameCat(x)}) ELSE windowed

\* the peers of the row r in the filtered table t
Peers(t, r) ==
    LET lo == Max(0, r.channel_age_years - PeerAgeWindow)
        hi == r.channel_age_years + PeerAgeWindow
        InWindow(q) == /\ q.category = r.category
                       /\ q.channel_age_years >= lo
                       /\ q.channel_age_years <= hi
        SameCat(q) == q.category = r.category
        windowed == Mask(t, {x \in Range(t) : InWindow(x)})
    IN  IF windowed = <<>> THEN Mask(t, {x \in Range(t) : SameCat(x)}) ELSE windowed

\* PctDiff without the guard on the median
PctDiff_Unguarded(value, median) ==
    RMul(RDiv(RSub(value, median), median), RInt(100))

\* the rank with ties at their lowest position (method='min')
RankPct_MinTie(series, i) ==
    Rat(Cardinality({j \in 1..Len(series) : RLess(series[j], series[i])}) + 1,
        Len(series))

\* the rank itself, not divided by the length of the series
RankPct_NotPct(series, i) ==
    LET less == Cardinality({j \in 1..Len(series) : RLess(series[j], series[i])})
        same == Cardinality({j \in 1..Len(series) : series[j] = series[i]})
    IN  Rat(2 * less + same + 1, 2)

\* series.rank(pct=True) at position i: the average of the 1-based sorted
\* positions of the entries equal to series[i], over the length
RankPct(series, i) ==
    LET less == Cardinality({j \in 1..Len(series) : RLess(series[j], series[i])})
        same == Cardinality({j \in 1..Len(series) : series[j] = series[i]})
    IN  Rat(2 * less + same + 1, 2 * Len(series))

\* pct_norm as the strict-less-than share on both branches
pct_norm_FallbackOnly(value, series) ==
    Rat(Cardinality({i \in 1..Len(series) : RLess(series[i], value)}),
        Max(1, Len(series)))

\* pct_norm with the fallback divided by len(series) itself
pct_norm_NoMax(value, series) ==
    LET at == {i \in 1..Len(series) : series[i] = value /\ ~IsNaN(value)}
    IN  IF at # {}
        THEN RankPct(series, CHOOSE i \in at : \A j \in at : i <= j)
        ELSE Rat(Cardinality({i \in 1..Len(series) : RLess(series[i], value)}),
                 Len(series))

\* pct_norm(value, series): the rank of the first entry equal to value;
\* .iloc[0] raises when there is none, and the fallback counts the entries
\* strictly below value
pct_norm(value, series) ==
    LET at == {i \in 1..Len(series) : series[i] = value /\ ~IsNaN(value)}
    IN  IF at # {}
        THEN RankPct(series, CHOOSE i \in at : \A j \in at : i <= j)
        ELSE Rat(Cardinality({i \in 1..Len(series) : RLess(series[i], value)}),
                 Max(1, Len(series)))

RadarMetrics == <<"growth_boost_score", "audience_interest_rate", "views_per_upload">>

\* ch_scaled: the three radar values of the entity
ChScaled(r, p) == [k \in 1..3 |-> pct_norm(r[RadarMetrics[k]], Column(p, RadarMetrics[k]))]

\* peer_scaled: peers[metric].rank(pct=True).mean() for the three metrics
PeerScaled(p) ==
    [k \in 1..3 |->
        LET col == Column(p, RadarMetrics[k])
        IN  Mean([i \in 1..Len(col) |-> RankPct(col, i)])]

\* ((value - median) / median * 100) if median > 0 else 0
PctDiff(value, median) ==
    IF RLess(Zero, median)
    THEN RMul(RDiv(RSub(value, median), median), RInt(100))
    ELSE Zero

\* the medians of the peer group and the three percent differences
Compare(r, p) ==
    LET gm == Median(Column(p, "growth_boost_score"))
        im == Median(Column(p, "audience_interest_rate"))
        vm == Median(Column(p, "views_per_upload"))
        uf == Median(IntColumn(p, "videos_last_30_days"))
    IN  [peer_growth_median |-> gm,
         peer_interest_median |-> im,
         peer_views_median |-> vm,
         peer_upload_freq |-> uf,
         growth_diff |-> PctDiff(r.growth_boost_score, gm),
         interest_diff |-> PctDiff(r.audience_interest_rate, im),
         views_diff |-> PctDiff(r.views_per_upload, vm)]


\* ------------------------------------------------------- recommendations
\* one line of the list: the words of its text and the numbers printed in it
Tip(text, args) == [text |-> text, args |-> args]

\* rule 1 with CRITICAL also for an entity equal to the median
TipsInterest_AtMedian(r, c) ==
    IF RLeq(r.audience_interest_rate, c.peer_interest_median)
    THEN << Tip(<<"CRITICAL", ": Improve Audience Engagement (You're", "% below peers)">>,
                <<Fmt(RAbs(c.interest_diff), 10)>>) >>
    ELSE IF RLess(RMul(c.peer_interest_median, Rat(12, 10)), r.audience_interest_rate)
    THEN << Tip(<<"EXCELLENT", ": Strong Audience Engagement (", "% vs peers!)">>,
                <<Fmt(c.interest_diff, 10)>>) >>
    ELSE <<>>

\* the lines of rule 1 (audience engagement)
TipsInterest(r, c) ==
    IF RLess(r.audience_interest_rate, c.peer_interest_median)
    THEN << Tip(<<"CRITICAL", ": Improve Audience Engagement (You're", "% below peers)">>,
                <<Fmt(RAbs(c.interest_diff), 10)>>),
            Tip(<<"   * Your audience interest rate:", "% vs peer average:", "%">>,
                <<Fmt(r.audience_interest_rate, 100), Fmt(c.peer_interest_median, 100)>>),
            Tip(<<"   * Only", "% of your subscribers watched your recent videos">>,
                <<Fmt(r.audience_interest_rate, 10)>>),
            Tip(<<"   * Action: Improve your first 30 seconds">>, <<>>),
            Tip(<<"   * Action: Survey your audience">>, <<>>) >>
    ELSE IF RLess(RMul(c.peer_interest_median, Rat(12, 10)), r.audience_interest_rate)
    THEN << Tip(<<"EXCELLENT", ": Strong Audience Engagement (", "% vs peers!)">>,
                <<Fmt(c.interest_diff, 10)>>),
            Tip(<<"   * Your audience interest rate:", "% (Outstanding!)">>,
                <<Fmt(r.audience_interest_rate, 100)>>),
            Tip(<<"   * Keep doing what you're doing">>, <<>>) >>
    ELSE <<>>

\* rule 2 also for an entity equal to the median
TipsViews_AtMedian(r, c) ==
    IF RLeq(r.views_per_upload, c.peer_views_median)
    THEN << Tip(<<"IMPORTANT", ": Optimize Click-Through Rate (You're", "% below peers)">>,
                <<Fmt(RAbs(c.views_diff), 10)>>),
            Tip(<<"   * Potential gain:", "extra views/month">>,
                <<Fmt(RMul(RSub(c.peer_views_median, r.views_per_upload),
                           RInt(r.videos_last_30_days)), 1)>>) >>
    ELSE <<>>

\* the lines of rule 2 (views per upload)
TipsViews(r, c) ==
    IF RLess(r.views_per_upload, c.peer_views_median)
    THEN << Tip(<<"IMPORTANT", ": Optimize Click-Through Rate (You're", "% below peers)">>,
                <<Fmt(RAbs(c.views_diff), 10)>>),
            Tip(<<"   * Your views per upload:", "vs peer average:">>,
                <<Fmt(r.views_per_upload, 1), Fmt(c.peer_views_median, 1)>>),
            Tip(<<"   * Potential gain:", "extra views/month">>,
                <<Fmt(RMul(RSub(c.peer_views_median, r.views_per_upload),
                           RInt(r.videos_last_30_days)), 1)>>),
            Tip(<<"   * Action: A/B test thumbnails">>, <<>>) >>
    ELSE <<>>

\* rule 3 also for an entity equal to the median
TipsGrowth_AtMedian(r, c) ==
    IF RLeq(r.growth_boost_score, c.peer_growth_median)
    THEN << Tip(<<"OPPORTUNITY", ": Accelerate Channel Growth (You're", "% below peers)">>,
                <<Fmt(RAbs(c.growth_diff), 10)>>) >>
    ELSE <<>>

\* the line of rule 3 (growth)
TipsGrowth(r, c) ==
    IF RLess(r.growth_boost_score, c.peer_growth_median)
    THEN << Tip(<<"OPPORTUNITY", ": Accelerate Channel Growth (You're", "% below peers)">>,
                <<Fmt(RAbs(c.growth_diff), 10)>>) >>
    ELSE <<>>

\* the line of rule 4 (upload frequency)
TipsUploads(r, c) ==
    IF /\ RLess(RInt(r.videos_last_30_days), c.peer_upload_freq)
       /\ r.videos_last_30_days < LowUploadLimit
    THEN << Tip(<<"CONSIDER", ": Increase Upload Frequency">>, <<>>) >>
    ELSE <<>>

\* the two closing lines: the category and the size of the peer group
TipsContext(r, p) ==
    << Tip(<<"Category Context:">> \o r.category, <<>>),
       Tip(<<"   * Comparing against", "similar channels in your category">>, <<Len(p)>>) >>

\* "CRITICAL" in t or "IMPORTANT" in t
Flagged(t) == Contains(t.text, "CRITICAL") \/ Contains(t.text, "IMPORTANT")

\* the header line, computed from the lines collected so far
Header(body) ==
    LET flagged == {i \in 1..Len(body) : Flagged(body[i])}
    IN  IF flagged = {}
        THEN Tip(<<"OVERALL", ": Your channel is performing well!">>, <<>>)
        ELSE Tip(<<"FOCUS AREAS", ":", "key improvement(s) identified">>,
                 <<Cardinality(flagged)>>)

\* tips with rule 3 evaluated before rule 2
Tips_GrowthFirst(r, p, c) ==
    LET body == TipsInterest(r, c) \o TipsGrowth(r, c) \o TipsViews(r, c)
                \o TipsUploads(r, c) \o TipsContext(r, p)
    IN  <<Header(body)>> \o body

\* tips: the list shown for the entity r with peers p and comparison c
Tips(r, p, c) ==
    LET body == TipsInterest(r, c) \o TipsViews(r, c) \o TipsGrowth(r, c)
                \o TipsUploads(r, c) \o TipsContext(r, p)
    IN  <<Header(body)>> \o body


\* ---------------------------------------------- posting-frequency buckets
\* pd.to_numeric(..., errors='coerce').fillna(0).clip(lower=0)
CoerceUploads(v) == IF v < 0 THEN 0 ELSE v

BucketEdges == <<0, 5, 10, 15, 20, 25, 30, Inf>>
BucketLabels == <<"0-4", "5-9", "10-14", "15-19", "20-24", "25-29", "30+">>

\* the buckets closed at their upper edge (right=True)
uploads_bucket_RightClosed(v) == Cut(v, BucketEdges, BucketLabels, TRUE, TRUE)

\* pd.cut(..., bins=bin_edges, labels=labels, include_lowest=True, right=False)
uploads_bucket(v) == Cut(v, BucketEdges, BucketLabels, FALSE, TRUE)

\* df_t1 after the coercion of videos_last_30_days and with uploads_bucket
BucketDf(t) ==
    [i \in 1..Len(t) |->
        LET v == CoerceUploads(t[i].videos_last_30_days)
        IN  WithCol(WithCol(t[i], "videos_last_30_days", v),
                    "uploads_bucket", uploads_bucket(v))]

\* groupby('uploads_bucket', observed=True).agg(median views, nunique names):
\* one row per bucket that has a member, in the order of the labels
GroupBuckets(t) ==
    LET Members(b) == SelectSeqIdx(t, [i \in 1..Len(t) |-> t[i].uploads_bucket = b], 1)
        row == [k \in 1..Len(BucketLabels) |->
                   [uploads_bucket |-> BucketLabels[k],
                    typical_views |-> Median(IntColumn(Members(BucketLabels[k]),
                                                       "views_last_30_days")),
                    ch_count |-> Cardinality(Range(Column(Members(BucketLabels[k]),
                                                          "channel_name")))]]
    IN  SelectSeqIdx(row, [k \in 1..Len(BucketLabels) |-> row[k].ch_count > 0], 1)

\* the merge keeping only the buckets that have a member
MergeBuckets_Inner(g) == g

\* all_buckets.merge(ba, how='left').fillna({'typical_views': 0, 'ch_count': 0})
MergeBuckets(g) ==
    [k \in 1..Len(BucketLabels) |->
        LET at == {i \in 1..Len(g) : g[i].uploads_bucket = BucketLabels[k]}
        IN  IF at = {}
            THEN [uploads_bucket |-> BucketLabels[k], typical_views |-> Zero, ch_count |-> 0]
            ELSE g[CHOOSE i \in at : TRUE]]

\* st.stop(): nothing after it is executed
AfterStop_Ignored(stopped, x) == x

AfterStop(stopped, x) == IF stopped THEN <<>> ELSE x

\* ------------------------------------------- category entry difficulty
\* a category needs this many channels to be ranked
MinCategoryChannels == 10
\* .tail(20)
CatTail == 20

\* names of further categories
CategoryNames ==
    << "C01", "C02", "C03", "C04", "C05", "C06", "C07", "C08", "C09",
       "C10", "C11", "C12", "C13", "C14", "C15", "C16", "C17", "C18",
       "C19", "C20", "C21", "C22", "C23", "C24" >>

\* the group keys of a groupby: the values present, in the order of the
\* sorted sequence `sorted`
SortedKeys(present, sorted) ==
    LET pos == [x \in present |-> CHOOSE k \in 1..Len(sorted) : sorted[k] = x]
    IN  [n \in 1..Cardinality(present) |->
            CHOOSE x \in present : Cardinality({y \in present : pos[y] <= pos[x]}) = n]

\* the group keys in sorted order: 'C01' < ... < 'Gaming' < 'IMPORTANT News'
\* < 'Music'
SortedCategories ==
    [k \in 1..Len(CategoryNames) |-> <<CategoryNames[k]>>]
    \o <<<<"Gaming">>, <<"IMPORTANT", "News">>, <<"Music">>>>

\* df_t2.groupby('category').agg(mean subscribers, mean views, count)
GroupCategories(t) ==
    LET Members(c) == SelectSeqIdx(t, [i \in 1..Len(t) |-> t[i].category = c], 1)
        keys == SortedKeys(Range(Column(t, "category")), SortedCategories)
    IN  [k \in 1..Len(keys) |->
            [category |-> keys[k],
             subscriber_count |-> Mean(IntColumn(Members(keys[k]), "subscriber_count")),
             view_count |-> Mean(IntColumn(Members(keys[k]), "view_count")),
             channel_name |-> Len(Members(keys[k]))]]

\* sort_values(f): a stable sort of the rows on the number in column f,
\* the undefined numbers last
RECURSIVE InsertBy(_, _, _, _)
InsertBy(x, s, f, ascending) ==
    IF s = <<>> THEN <<x>>
    ELSE IF (IF ascending THEN RLeq(x[f], Head(s)[f]) ELSE RLeq(Head(s)[f], x[f]))
    THEN <<x>> \o s
    ELSE <<Head(s)>> \o InsertBy(x, Tail(s), f, ascending)

RECURSIVE SortDefined(_, _, _)
SortDefined(s, f, ascending) ==
    IF s = <<>> THEN <<>>
    ELSE InsertBy(Head(s), SortDefined(Tail(s), f, ascending), f, ascending)

SortValues(t, f, ascending) ==
    SortDefined(SelectSeqIdx(t, [i \in 1..Len(t) |-> ~IsNaN(t[i][f])], 1), f, ascending)
    \o SelectSeqIdx(t, [i \in 1..Len(t) |-> IsNaN(t[i][f])], 1)

HeadN(t, n) == SubSeq(t, 1, Min(n, Len(t)))
TailN(t, n) == SubSeq(t, Max(1, Len(t) - n + 1), Len(t))

\* the groups with more than MinCategoryChannels channels
Qualifying_MoreThan(g) ==
    SelectSeqIdx(g, [i \in 1..Len(g) |-> g[i].channel_name > MinCategoryChannels], 1)

\* the groups with enough channels
Qualifying(g) ==
    SelectSeqIdx(g, [i \in 1..Len(g) |-> g[i].channel_name >= MinCategoryChannels], 1)

\* the ranking with the head of the sorted list in place of its tail
RankCategories_Head(g) ==
    HeadN(SortValues(Qualifying(g), "subscriber_count", TRUE), CatTail)

\* cat_s[cat_s['channel_name']>=10].sort_values(...).tail(20)
RankCategories(g) ==
    TailN(SortValues(Qualifying(g), "subscriber_count", TRUE), CatTail)

\* ------------------------------------------------- geographic performance
TopCategoryCount == 10
GeoPairs == 25
ViewScale == 1000000
SubscriberScale == 100000

\* the country codes of the tables in sorted order
SortedCountries == <<"GB", "US", "Unknown", "XK">>

\* Series.value_counts(): the values with their counts, the largest count
\* first, equal counts in order of first appearance
ValueCounts(col) ==
    LET u == Unique(col)
    IN  SortValues([k \in 1..Len(u) |->
                       [value |-> u[k],
                        count |-> RInt(Cardinality({i \in 1..Len(col) : col[i] = u[k]}))]],
                   "count", FALSE)

\* df_t2['category'].value_counts().head(10).index
TopCategories(t) ==
    Column(HeadN(ValueCounts(Column(t, "category")), TopCategoryCount), "value")

\* a + b over the least common denominator (the sum of a number of
\* millionths and a number of hundred-thousandths stays within 32 bits)
RAddLcd(a, b) ==
    LET g == GCD(a[2], b[2])
    IN  Rat(a[1] * (b[2] \div g) + b[1] * (a[2] \div g), (a[2] \div g) * b[2])

\* (view_count / 1e6) + (subscriber_count / 1e5)
performance_score(view_count, subscriber_count) ==
    RAddLcd(RDiv(view_count, RInt(ViewScale)), RDiv(subscriber_count, RInt(SubscriberScale)))

\* the sequences of ss one after the other
RECURSIVE Concat(_)
Concat(ss) == IF ss = <<>> THEN <<>> ELSE Head(ss) \o Concat(Tail(ss))

\* df_t2[category in top_categories].groupby(['country', 'country_name',
\* 'category']).agg({mean, mean, count}) with the performance_score
GeoData(t, cats) ==
    LET f == SelectSeqIdx(t, [i \in 1..Len(t) |-> t[i].category \in Range(cats)], 1)
        Members(c, k) ==
            SelectSeqIdx(f, [i \in 1..Len(f) |-> f[i].country = c /\ f[i].category = k], 1)
        countries == SortedKeys(Range(Column(f, "country")), SortedCountries)
        KeysIn(c) ==
            LET ks == SortedKeys({ f[i].category : i \in {j \in 1..Len(f) : f[j].country = c} },
                                 SortedCategories)
            IN  [n \in 1..Len(ks) |-> <<c, ks[n]>>]
        keys == Concat([c \in 1..Len(countries) |-> KeysIn(countries[c])])
    IN  [n \in 1..Len(keys) |->
            LET m == Members(keys[n][1], keys[n][2])
                v == Mean(IntColumn(m, "view_count"))
                s == Mean(IntColumn(m, "subscriber_count"))
            IN  [country |-> keys[n][1],
                 country_name |-> m[1].country_name,
                 category |-> keys[n][2],
                 view_count |-> v,
                 subscriber_count |-> s,
                 channel_name |-> Len(m),
                 performance_score |-> performance_score(v, s)]]

\* a < b, compared over the least common denominator
RLessLcd(a, b) ==
    LET g == GCD(a[2], b[2])
    IN  a[1] * (b[2] \div g) < b[1] * (a[2] \div g)

\* nlargest with the n smallest rows, smallest first
NLargest_Smallest(t, n, f) ==
    LET Before(j, i) == RLessLcd(t[j][f], t[i][f]) \/ (t[j][f] = t[i][f] /\ j < i)
        Pos(i) == Cardinality({j \in 1..Len(t) : Before(j, i)}) + 1
    IN  [k \in 1..Min(n, Len(t)) |-> t[CHOOSE i \in 1..Len(t) : Pos(i) = k]]

\* DataFrame.nlargest(n, f): the n rows with the largest f, largest first,
\* equal values in their order in the frame (f is defined in every row)
NLargest(t, n, f) ==
    LET Before(j, i) == RLessLcd(t[i][f], t[j][f]) \/ (t[j][f] = t[i][f] /\ j < i)
        Pos(i) == Cardinality({j \in 1..Len(t) : Before(j, i)}) + 1
    IN  [k \in 1..Min(n, Len(t)) |-> t[CHOOSE i \in 1..Len(t) : Pos(i) = k]]

\* ------------------------------------------------- sponsorship ranking
TopN == 15

\* names of further channels
ChannelNames ==
    << "n01", "n02", "n03", "n04", "n05", "n06", "n07", "n08", "n09", "n10",
       "n11", "n12", "n13", "n14", "n15", "n16", "n17", "n18", "n19", "n20" >>

\* the group keys in sorted order
SortedNames == <<"a", "b", "c", "d", "e", "k">> \o ChannelNames \o <<"z">>

\* groupby 'first': the first value that is not missing
FirstOf(col) ==
    LET at == {i \in 1..Len(col) : col[i] # NaN}
    IN  IF at = {} THEN NaN ELSE col[CHOOSE i \in at : \A j \in at : i <= j]

\* df_t3.groupby("channel_name", as_index=False).agg({...})
Agg(t) ==
    LET Members(n) == SelectSeqIdx(t, [i \in 1..Len(t) |-> t[i].channel_name = n], 1)
        keys == SortedKeys(Range(Column(t, "channel_name")), SortedNames)
    IN  [k \in 1..Len(keys) |->
            LET m == Members(keys[k])
            IN  [channel_name |-> keys[k],
                 subscriber_count |-> MaxOf(Range(Column(m, "subscriber_count"))),
                 views_last_30_days |-> MaxOf(Range(Column(m, "views_last_30_days"))),
                 video_count |-> MaxOf(Range(Column(m, "video_count"))),
                 view_count |-> MaxOf(Range(Column(m, "view_count"))),
                 cost_effectiveness |-> Mean(Column(m, "cost_effectiveness")),
                 country |-> FirstOf(Column(m, "country")),
                 country_name |-> FirstOf(Column(m, "country_name")),
                 category |-> m[1].category]]

\* agg.sort_values(ce, ascending=False).head(15).sort_values(ce, ascending=True)
Top(a) ==
    SortValues(HeadN(SortValues(a, "cost_effectiveness", FALSE), TopN),
               "cost_effectiveness", TRUE)

\* the comparison of the channel sel with the averages of the filtered set
ChannelComparison(a, top_rows, chosen) ==
    LET at == {i \in 1..Len(top_rows) : top_rows[i].channel_name = chosen}
    IN  [ch_d |-> top_rows[CHOOSE i \in at : \A j \in at : i <= j],
         avg_s |-> Mean(IntColumn(a, "subscriber_count")),
         avg_v |-> Mean(IntColumn(a, "views_last_30_days")),
         avg_vc |-> Mean(IntColumn(a, "video_count")),
         avg_c |-> Mean(Column(a, "cost_effectiveness"))]

\* ------------------------------------------------------------ the inputs
Row(name, cat, country, subs, views, videos, up30, views30, age, log1p) ==
    [channel_name |-> name, category |-> cat, country |-> country,
     subscriber_count |-> subs, view_count |-> views, video_count |-> videos,
     videos_last_30_days |-> up30, views_last_30_days |-> views30,
     channel_age_years |-> age, video_count_log1p |-> log1p]

Music == <<"Music">>
Gaming == <<"Gaming">>
News == <<"IMPORTANT", "News">>

\* rows that differ in category, country and age: a mapped code, a code
\* absent from COUNTRY_MAP, a missing country, the literal 'Unknown', and a
\* row whose video_count_log1p cell is empty
FilterPool ==
    { Row("a", Music, "US", 1, 9, 1, 1, 1, 0, RInt(1)),
      Row("b", Music, "XK", 1000, 9, 3, 2, 3, 3, RInt(1)),
      Row("c", Gaming, NaN, 0, 0, 0, 0, 0, 2, RInt(0)),
      Row("a", Music, "Unknown", 4, 4, 2, 5, 0, -1, RInt(1)),
      Row("d", Gaming, "GB", 9, 9, 2, 1, 1, 2, RNaN) }

\* rows of one cohort that differ in their metrics, and one row of a
\* category whose name carries a word of the rule tags
MetricPool ==
    { Row("a", Music, "US", 1, 9, 1, 1, 1, 1, RInt(1)),
      Row("b", Music, "US", 4, 4, 2, 2, 3, 2, RInt(1)),
      Row("c", Music, "US", 19, 0, 0, 0, 1, 3, RInt(0)),
      Row("z", Music, "US", 0, 0, 6, 5, 0, 1, RInt(2)),
      Row("k", News, "US", 1, 9, 1, 1, 1, 1, RInt(1)) }

\* rows of one cohort that differ in their uploads of the last 30 days: two
\* rows of one channel in one bucket, a negative cell, the last bucket
UploadPool ==
    { Row("a", Music, "US", 1, 9, 1, 0, 4, 1, RInt(1)),
      Row("a", Music, "US", 1, 9, 1, 3, 2, 1, RInt(1)),
      Row("b", Music, "US", 4, 4, 2, 5, 1, 2, RInt(1)),
      Row("c", Music, "US", 9, 0, 3, -2, 2, 1, RInt(1)),
      Row("e", Music, "US", 1, 9, 1, 30, 9, 3, RInt(1)) }

SubscriberCounts ==
    {0, 1, 999, 1000, 1001, 9999, 10000, 10001, 99999, 100000, 100001,
     999999, 1000000, 1000001}

UploadCounts == {0, 1, 4, 5, 9, 10, 14, 15, 19, 20, 24, 25, 29, 30, 31, 1000}

\* single rows over the boundary values of the per-record functions
RowDomain ==
    { Row("a", Music, "US", s, v, 1, 1, w, 1, RInt(1)) :
        s \in SubscriberCounts, v \in {0, 1, 9}, w \in {0, 1} }
    \cup
    { Row("a", Music, "US", s, v, 1, 1, w, 1, RInt(1)) :
        s \in {0, 1, 3}, v \in {0, 1, 9}, w \in {0, 1, 7, 100} }
    \cup
    { Row("a", Music, "US", 3, 9, 1, u, w, 1, RInt(1)) :
        u \in UploadCounts, w \in {0, 1, 7} }

\* n copies of the row r
Repeat(r, n) == [i \in 1..n |-> r]

\* tables given by the number of channels of each of two categories; one
\* channel of the second category is in another subscriber tier
CatTable(n, m) ==
    Repeat(Row("a", Music, "US", 1, 9, 1, 1, 1, 1, RInt(1)), n)
    \o (IF m = 0 THEN <<>>
        ELSE <<Row("b", Gaming, "US", 5000, 9, 1, 1, 1, 1, RInt(1))>>
             \o Repeat(Row("c", Gaming, "US", 2, 9, 1, 1, 1, 1, RInt(1)), m - 1))

\* the mean subscriber counts of the categories of a grouped table: rising,
\* falling, all equal, or repeating with ties
SubscriberPatterns == {"rising", "falling", "equal", "ties"}

PatternSubscribers(k, pattern) ==
    CASE pattern = "rising" -> k
      [] pattern = "falling" -> 100 - k
      [] pattern = "equal" -> 5
      [] pattern = "ties" -> (k % 3) + 1

\* the grouped table of c categories; with short set, every second category
\* is one channel short of MinCategoryChannels
GroupedTable(c, pattern, short) ==
    [k \in 1..c |->
        [category |-> <<CategoryNames[k]>>,
         subscriber_count |-> Rat(2 * PatternSubscribers(k, pattern) + 1, 2),
         view_count |-> RInt(9),
         channel_name |-> IF short /\ k % 2 = 1 THEN MinCategoryChannels - 1
                          ELSE MinCategoryChannels]]

\* the table of n channels of one category; the first `undefined` channels
\* have an empty video_count_log1p cell; with dup set, the first channel has
\* a second record
SponsorTable(n, pattern, undefined, dup) ==
    [i \in 1..n |->
        Row(ChannelNames[i], Music, "US", 1, 9, 1, 1,
            PatternSubscribers(i, pattern), 1,
            IF i <= undefined THEN RNaN ELSE RInt(1))]
    \o (IF dup /\ n > 0
        THEN <<Row(ChannelNames[1], Music, "US", 3, 1, 2, 1, 7, 1, RInt(1))>>
        ELSE <<>>)

\* the country codes of the geographic tables: two mapped ones and one
\* absent from COUNTRY_MAP
GeoCountries == <<"US", "GB", "XK">>

GeoSubscribers(j, i, pattern) ==
    CASE pattern = "rising" -> j + i
      [] pattern = "falling" -> 16 - j
      [] pattern = "equal" -> 3
      [] pattern = "ties" -> (j % 3) + 1

\* the table of c categories with one record in each of k countries; every
\* third category has a second record in the first country; the views of
\* the last 30 days equal the subscribers
GeoTable(c, k, pattern) ==
    [n \in 1..(c * k) |->
        LET j == ((n - 1) \div k) + 1
            i == ((n - 1) % k) + 1
        IN  Row(ChannelNames[((n - 1) % Len(ChannelNames)) + 1],
                <<CategoryNames[j]>>, GeoCountries[i],
                GeoSubscribers(j, i, pattern), i, 1, 1,
                GeoSubscribers(j, i, pattern), 1, RInt(1))]
    \o [e \in 1..(c \div 3) |->
           Row("a", <<CategoryNames[3 * e]>>, GeoCountries[1],
               GeoSubscribers(3 * e, 1, pattern) + 1, 2, 1, 1,
               GeoSubscribers(3 * e, 1, pattern) + 1, 1, RInt(1))]

\* rows of one cohort whose three metrics are multiples of their views of
\* the last 30 days: two values 1/3000 apart, their double, and zero
GapPool ==
    { Row("a", Music, "US", 1, 0, 1, 1, 2999, 1, RInt(1)),
      Row("b", Music, "US", 1, 0, 1, 1, 3000, 1, RInt(1)),
      Row("c", Music, "US", 1, 0, 1, 1, 6000, 1, RInt(1)),
      Row("d", Music, "US", 1, 0, 1, 1, 0, 1, RInt(1)) }

Tables == SeqsUpTo(FilterPool, MaxRows)
MetricTables == SeqsUpTo(MetricPool, MaxPeers)
UploadTables == SeqsUpTo(UploadPool, MaxPeers)
RowTables == {<<r>> : r \in RowDomain}
GroupedTables ==
    { GroupedTable(c, pattern, short) :
        c \in 0..MaxCategories, pattern \in SubscriberPatterns, short \in BOOLEAN }
GapTables == SeqsUpTo(GapPool, MaxPeers)
GeoTables ==
    { GeoTable(c, k, pattern) :
        c \in 1..MaxGeoCategories, k \in 1..Len(GeoCountries),
        pattern \in SubscriberPatterns }
SponsorTables ==
    { SponsorTable(n, pattern, undefined, dup) :
        n \in {1, 2} \cup ((TopN - 1)..MaxChannels),
        pattern \in SubscriberPatterns,
        undefined \in 0..2, dup \in BOOLEAN }
CatTables ==
    { CatTable(n, m) : n \in 0..MaxCatRows,
                       m \in {0, MinCategoryChannels - 1, MinCategoryChannels} }
    \ {<<>>}


\* -------------------------------------------------------------- the state
VARIABLES
    df,            \* the loaded, normalised table (<<>> while no file is loaded)
    loaded,        \* df is not None
    load_warning,  \* the st.warning of the load, as a list of at most one entry
    selected_tab,  \* st.session_state.selected_tab
    t_cat,         \* the category multiselect of the active tab (t1_cat, t2_cat, t3_cat)
    t_cntry,       \* the country multiselect of the active tab
    t_sub,         \* t2_sub, the subscriber-tier multiselect
    t_age,         \* <<age_min, age_max>> of the slider of the active tab
    sel_ch,        \* the channel picked in the selectbox of tab 1
    view,          \* what the last run rendered
    df_t1, df_t2, df_t3,   \* the filtered copy of the active tab
    sel_r, peers,  \* the selected row and its peer group
    ch_scaled, peer_scaled,  \* the radar values of the channel and of its peers
    cmp,           \* the peer medians and percent differences
    tips,          \* the recommendation list
    bucket_df,     \* df_t1 once videos_last_30_days is coerced and bucketed
    ba,            \* the posting-frequency aggregate
    cat_g,         \* the table of tab 2 grouped by category
    cat_s,         \* the category-difficulty ranking of tab 2
    top_categories,\* the most frequent categories of the table of tab 2
    geo_data,      \* the (country, category) groups of tab 2 with their score
    geo_data_top,  \* the groups of geo_data with the largest scores
    agg, top,      \* the per-channel aggregate of tab 3 and its top list
    sel,           \* the channel picked in the selectbox of tab 3
    comparison     \* ch_d and the averages it is compared with

vars == <<df, loaded, load_warning, selected_tab, t_cat, t_cntry, t_sub, t_age,
          sel_ch, view, df_t1, df_t2, df_t3, sel_r, peers, ch_scaled,
          peer_scaled, cmp, tips, bucket_df, ba, cat_g, cat_s, top_categories,
          geo_data, geo_data_top, agg, top, sel,
          comparison>>

T1 == "Existing Content Creators"
T2 == "New Content Creators"
T3 == "Marketers/Advertisers"
TabNames == {T1, T2, T3}

AllTiers == Range(TierLabels)

Ages(d) == Range(Column(d, "channel_age_years"))

\* the default of the age slider: (min, max) over the whole table
DefaultAge(d) == <<MinOf(Ages(d)), MaxOf(Ages(d))>>

\* the part of a run after the channel is picked (tab 1)
NoAnalysis ==
    /\ sel_ch' = "" /\ sel_r' = <<>> /\ peers' = <<>> /\ cmp' = <<>> /\ tips' = <<>>
    /\ ch_scaled' = <<>> /\ peer_scaled' = <<>>

\* lines 762-925 for the row r and the peer group p
Benchmarked(r, p) ==
    /\ sel_r' = r
    /\ peers' = p
    /\ ch_scaled' = ChScaled(sel_r', peers')
    /\ peer_scaled' = PeerScaled(peers')
    /\ cmp' = Compare(sel_r', peers')
    /\ tips' = Tips(sel_r', peers', cmp')

Analyse(t, ch) ==
    /\ sel_ch' = ch
    /\ Benchmarked(SelR(t, ch), Peers(t, SelR(t, ch)))

\* tab 1 from the coercion of videos_last_30_days on
Frequency(t, stopped) ==
    /\ bucket_df' = AfterStop(stopped, BucketDf(t))
    /\ ba' = AfterStop(stopped, MergeBuckets(GroupBuckets(BucketDf(t))))

NoFrequency == bucket_df' = <<>> /\ ba' = <<>>

\* the category ranking and the geographic scores of tab 2
NewCreators(t) ==
    /\ cat_g' = GroupCategories(t)
    /\ cat_s' = RankCategories(cat_g')
    /\ top_categories' = TopCategories(t)
    /\ geo_data' = GeoData(t, top_categories')
    /\ geo_data_top' = NLargest(geo_data', GeoPairs, "performance_score")

NoNewCreators ==
    /\ cat_g' = <<>> /\ cat_s' = <<>>
    /\ top_categories' = <<>> /\ geo_data' = <<>> /\ geo_data_top' = <<>>

\* the ranking, the selectbox and the comparison of tab 3
Sponsorship(t, keep) ==
    /\ agg' = Agg(t)
    /\ top' = Top(agg')
    /\ IF Len(top') > 0
       THEN /\ sel' = IF keep \in Range(Column(top', "channel_name"))
                      THEN keep ELSE top'[1].channel_name
            /\ comparison' = IF sel' # "" THEN ChannelComparison(agg', top', sel')
                             ELSE <<>>
       ELSE sel' = "" /\ comparison' = <<>>

NoSponsorship == agg' = <<>> /\ top' = <<>> /\ sel' = "" /\ comparison' = <<>>

\* the view is df itself: the filter and the derived columns land in df
SourceAfterRun_Aliased(d, t) == t

\* the table a run leaves in df: every tab works on df.copy()
SourceAfterRun(d, t) == d

\* one run of the script with the table d and the widget values given;
\* keep is the channel shown in the selectbox of the tab before the run
Run(d, isLoaded, tab, cat, cntry, sub, age, keep) ==
    /\ loaded' = isLoaded
    /\ selected_tab' = tab
    /\ t_cat' = cat /\ t_cntry' = cntry /\ t_sub' = sub /\ t_age' = age
    /\ IF ~isLoaded
       THEN /\ view' = "no_data"
            /\ df' = d /\ load_warning' = <<>>
            /\ df_t1' = <<>> /\ df_t2' = <<>> /\ df_t3' = <<>>
            /\ NoAnalysis /\ NoFrequency /\ NoNewCreators /\ NoSponsorship
       ELSE IF LoadRaises(d)
       THEN /\ view' = "load_error"
            /\ df' = d /\ load_warning' = <<>>
            /\ df_t1' = <<>> /\ df_t2' = <<>> /\ df_t3' = <<>>
            /\ NoAnalysis /\ NoFrequency /\ NoNewCreators /\ NoSponsorship
       ELSE IF tab = T1
       THEN LET t == MakeDfT1(d, cat, cntry, age)
                opts == ChannelOptions(t)
            IN  /\ df' = SourceAfterRun(d, t) /\ load_warning' = LoadWarning(d)
                /\ df_t1' = t /\ df_t2' = <<>> /\ df_t3' = <<>>
                /\ IF Len(t) = 0
                   THEN view' = "no_match" /\ NoAnalysis
                   ELSE /\ view' = "analysis"
                        /\ Analyse(t, IF keep \in Range(opts) THEN keep ELSE opts[1])
                /\ Frequency(t, Len(t) = 0)
                /\ NoNewCreators /\ NoSponsorship
       ELSE IF tab = T2
       THEN LET t == MakeDfT2(d, cat, cntry, sub, age)
            IN  /\ df' = SourceAfterRun(d, t) /\ load_warning' = LoadWarning(d)
                /\ view' = "new_creators"
                /\ df_t1' = <<>> /\ df_t2' = t /\ df_t3' = <<>>
                /\ NoAnalysis /\ NoFrequency
                /\ NewCreators(t)
                /\ NoSponsorship
       ELSE LET t == MakeDfT3(d, cat, cntry)
            IN  /\ df' = SourceAfterRun(d, t) /\ load_warning' = LoadWarning(d)
                /\ view' = "marketers"
                /\ df_t1' = <<>> /\ df_t2' = <<>> /\ df_t3' = t
                /\ NoAnalysis /\ NoFrequency /\ NoNewCreators
                /\ Sponsorship(t, keep)

Init ==
    /\ df = <<>> /\ loaded = FALSE /\ load_warning = <<>>
    /\ selected_tab = T1
    /\ t_cat = {} /\ t_cntry = {} /\ t_sub = AllTiers /\ t_age = <<0, 0>>
    /\ sel_ch = "" /\ view = "no_data"
    /\ df_t1 = <<>> /\ df_t2 = <<>> /\ df_t3 = <<>>
    /\ sel_r = <<>> /\ peers = <<>> /\ cmp = <<>> /\ tips = <<>>
    /\ ch_scaled = <<>> /\ peer_scaled = <<>>
    /\ bucket_df = <<>> /\ ba = <<>> /\ cat_g = <<>> /\ cat_s = <<>>
    /\ top_categories = <<>> /\ geo_data = <<>> /\ geo_data_top = <<>>
    /\ agg = <<>> /\ top = <<>> /\ sel = "" /\ comparison = <<>>

\* a file is uploaded: it is read and normalised, and the widgets of the
\* active tab show their defaults.  The load is one-shot: a session starts
\* without a table and loads one (a later replacement reaches no state that
\* a first load in the same tab does not reach).
Upload(tables) ==
    /\ ~loaded
    /\ \E raw \in tables :
           LET d == Normalize(raw)
           IN  Run(d, TRUE, selected_tab, {}, {}, AllTiers, DefaultAge(d), "")

\* the radio of the sidebar: the new tab is drawn with its default widgets
SelectTab ==
    \E tab \in TabNames \ {selected_tab} :
        Run(df, loaded, tab, {}, {}, AllTiers,
            IF loaded THEN DefaultAge(df) ELSE <<0, 0>>, "")

\* the widgets of a tab are drawn only when the load went through
Drawn == loaded /\ view # "load_error"

\* the channel shown in the selectbox of the active tab
Picked == IF selected_tab = T3 THEN sel ELSE sel_ch

SetCategories ==
    /\ Drawn
    /\ \E cat \in SUBSET Range(Column(df, "category")) \ {t_cat} :
           Run(df, TRUE, selected_tab, cat, t_cntry, t_sub, t_age, Picked)

SetCountries ==
    /\ Drawn
    /\ \E cntry \in SUBSET Range(Column(df, "country_name")) \ {t_cntry} :
           Run(df, TRUE, selected_tab, t_cat, cntry, t_sub, t_age, Picked)

\* the tier selections tried: none, all, and a single tier
SubChoices == {{}, AllTiers, {"0-1K"}}

SetTiers ==
    /\ Drawn /\ selected_tab = T2
    /\ \E sub \in SubChoices \ {t_sub} :
           Run(df, TRUE, selected_tab, t_cat, t_cntry, sub, t_age, Picked)

\* the slider positions tried: the ages that occur in the table
SetAge ==
    /\ Drawn /\ selected_tab \in {T1, T2}
    /\ \E lo \in Ages(df), hi \in Ages(df) :
           /\ lo <= hi /\ <<lo, hi>> # t_age
           /\ Run(df, TRUE, selected_tab, t_cat, t_cntry, t_sub, <<lo, hi>>, Picked)

SelectChannel ==
    /\ view = "analysis"
    /\ \E ch \in Range(ChannelOptions(df_t1)) \ {sel_ch} :
           Run(df, TRUE, selected_tab, t_cat, t_cntry, t_sub, t_age, ch)

\* the selectbox of tab 3
SelectSponsored ==
    /\ view = "marketers"
    /\ \E ch \in Range(Column(top, "channel_name")) \ {sel} :
           Run(df, TRUE, selected_tab, t_cat, t_cntry, t_sub, t_age, ch)

Next ==
    \/ Upload(Tables)
    \/ SelectTab
    \/ SetCategories
    \/ SetCountries
    \/ SetTiers
    \/ SetAge
    \/ SelectChannel
    \/ SelectSponsored

Spec == Init /\ [][Next]_vars

\* tables of one cohort: the recommendation rules
NextTips ==
    \/ Upload(MetricTables)
    \/ SelectChannel

SpecTips == Init /\ [][NextTips]_vars

\* single-row tables: the per-record functions
NextRow ==
    \/ Upload(RowTables)
    \/ SelectTab

SpecRow == Init /\ [][NextRow]_vars

\* tables of one cohort that differ in the uploads: the posting frequency
NextUploads ==
    \/ Upload(UploadTables)
    \/ SelectChannel

SpecUploads == Init /\ [][NextUploads]_vars

\* tables given by their category sizes: the category ranking
NextCat ==
    \/ Upload(CatTables)
    \/ SelectTab
    \/ SetTiers

SpecCat == Init /\ [][NextCat]_vars

\* the benchmark of a row against a peer group, for every row and every
\* group up to MaxPeers rows, the empty group included; each pair is
\* benchmarked from the initial state
Benchmark ==
    \E r \in MetricPool, p \in SeqsUpTo(MetricPool, MaxPeers) \cup {<<>>} :
        /\ sel_r = <<>>
        /\ Benchmarked(DeriveT1(NormalizeRow(r)),
                       [i \in 1..Len(p) |-> DeriveT1(NormalizeRow(p[i]))])
        /\ UNCHANGED <<df, loaded, load_warning, selected_tab, t_cat, t_cntry,
                       t_sub, t_age, sel_ch, view, df_t1, df_t2, df_t3,
                       bucket_df, ba, cat_g, cat_s, top_categories, geo_data,
                       geo_data_top, agg, top, sel, comparison>>

NextEngine == Benchmark

SpecEngine == Init /\ [][NextEngine]_vars


\* ============================================================= properties
NormFields == RawFields \cup {"country_name", "subscriber_tier"}
DerivedFields ==
    {"growth_boost_score", "views_per_upload", "audience_interest_rate",
     "uploads_bucket", "cost_effectiveness"}

\* the rows of a filtered copy without its derived columns
Strip(t) == [i \in 1..Len(t) |-> [f \in NormFields |-> t[i][f]]]

\* the filtered copy of the active tab
ViewTable ==
    IF selected_tab = T1 THEN df_t1 ELSE IF selected_tab = T2 THEN df_t2 ELSE df_t3

\* ------------------------------------------------------------------- C1
\* the tier with closed-open bins [0,1000), [1000,10000), ... , [1000000,inf)
TierClosedOpen(count) ==
    IF count < 1000 THEN "0-1K"
    ELSE IF count < 10000 THEN "1K-10K"
    ELSE IF count < 100000 THEN "10K-100K"
    ELSE IF count < 1000000 THEN "100K-1M"
    ELSE "1M+"

\* C1: every subscriber_count >= 0 gets exactly one of the five tier labels,
\* with closed-open bins: a boundary value belongs to the bin that starts at
\* it (0 -> 0-1K, 1000 -> 1K-10K, ..., 1000000 -> 1M+).
C1_TierClosedOpen ==
    \A i \in 1..Len(df) :
        /\ df[i].subscriber_tier \in AllTiers
        /\ df[i].subscriber_tier = TierClosedOpen(df[i].subscriber_count)

\* ------------------------------------------------------------------- C2
\* C2: growth_boost_score = 0.7*(views_30/max(subs,1)) + 0.3*(views_30/(views+1));
\* it is defined (no division by zero), finite and non-negative, and for
\* subs = 0 and views = 0 it equals views_30.
C2_GrowthBoostScore ==
    \A i \in 1..Len(df_t1) :
        LET r == df_t1[i]
            g == r.growth_boost_score
        IN  /\ ~IsNaN(g)
            /\ g[1] >= 0
            /\ g = RAdd(RMul(Rat(7, 10), Rat(r.views_last_30_days, Max(r.subscriber_count, 1))),
                        RMul(Rat(3, 10), Rat(r.views_last_30_days, r.view_count + 1)))
            /\ (r.subscriber_count = 0 /\ r.view_count = 0)
                   => g = RInt(r.views_last_30_days)

\* a record with no subscribers and no views, 100 views in the last 30 days,
\* scored 100
C2_Witness ==
    \E i \in 1..Len(df_t1) :
        /\ df_t1[i].subscriber_count = 0 /\ df_t1[i].view_count = 0
        /\ df_t1[i].views_last_30_days = 100
        /\ df_t1[i].growth_boost_score = <<100, 1>>

\* ------------------------------------------------------------------- C3
\* the records of df that pass the dimensions of the active tab other than
\* the country
PassOtherDims ==
    IF selected_tab = T1 THEN FilterAge(FilterCat(df, t_cat), t_age)
    ELSE IF selected_tab = T2 THEN FilterAge(FilterSub(FilterCat(df, t_cat), t_sub), t_age)
    ELSE FilterCat(df, t_cat)

\* C3: in each view, with a non-empty country selection the filtered table
\* holds exactly the records (passing the other dimensions) whose country
\* display name is selected, and an empty selection restricts nothing; also
\* for a raw code absent from the country map and for 'Unknown'.
C3_CountryFilterByName ==
    Drawn =>
        LET Named(r) == t_cntry = {} \/ r.country_name \in t_cntry
        IN  Strip(ViewTable) = Mask(PassOtherDims, {x \in Range(PassOtherDims) : Named(x)})

\* ------------------------------------------------------------------- C4
\* C4: the Existing Creators table is exactly the records whose category is
\* selected (or none is) AND whose age lies in [age_min, age_max], both ends
\* inclusive (among the records the country selection lets through); with
\* the default criteria every source record is in it.
C4_ConjunctiveFilter ==
    (Drawn /\ selected_tab = T1) =>
        LET Ok(r) == /\ (t_cat = {} \/ r.category \in t_cat)
                     /\ t_age[1] <= r.channel_age_years
                     /\ r.channel_age_years <= t_age[2]
        IN  /\ Strip(df_t1) = Mask(FilterCntry(df, t_cntry), {x \in Range(df) : Ok(x)})
            /\ (t_cat = {} /\ t_cntry = {} /\ t_age = DefaultAge(df))
                   => Strip(df_t1) = df

\* a category is selected, the age range ends at the age of a record that is
\* kept, and a record of the selected category is left out by its age
C4_Witness ==
    /\ loaded /\ selected_tab = T1 /\ t_cat # {}
    /\ \E i \in 1..Len(df_t1) : df_t1[i].channel_age_years = t_age[2]
    /\ \E i \in 1..Len(df) :
           df[i].category \in t_cat /\ df[i].channel_age_years > t_age[2]

\* ------------------------------------------------------------------- C5
\* C5: no run mutates the loaded table: once loaded, df keeps its rows and
\* column values over every filter change, tab switch and entity selection,
\* and the derived columns exist only on the filtered copy of the view.
C5_SourceNotMutated ==
    /\ [](\A i \in 1..Len(df) : DOMAIN df[i] = NormFields)
    /\ [][loaded => df' = df]_vars

\* a filtered Marketers copy carrying cost_effectiveness, shorter than df
C5_Witness ==
    /\ loaded /\ view = "marketers"
    /\ Len(df_t3) > 0 /\ Len(df_t3) < Len(df)
    /\ \A i \in 1..Len(df_t3) : "cost_effectiveness" \in DOMAIN df_t3[i]


\* ------------------------------------------------------------------- C6
\* the lines of the list whose first word is tag
Tagged(tag) == {i \in 1..Len(tips) : tips[i].text[1] = tag}

\* C6: CRITICAL is emitted exactly when the entity's audience_interest_rate
\* is strictly below the peer median; otherwise POSITIVE (EXCELLENT) exactly
\* when the rate is strictly above 1.2 times the median; never both, and
\* neither when the rate lies in [median, 1.2*median].
C6_RuleInterest ==
    view = "analysis" =>
        LET rate == sel_r.audience_interest_rate
            med == cmp.peer_interest_median
            crit == Tagged("CRITICAL") # {}
            pos == Tagged("EXCELLENT") # {}
        IN  /\ crit <=> RLess(rate, med)
            /\ pos <=> (~RLess(rate, med) /\ RLess(RMul(med, Rat(6, 5)), rate))
            /\ ~(crit /\ pos)
            /\ (RLeq(med, rate) /\ RLeq(rate, RMul(med, Rat(6, 5)))) => (~crit /\ ~pos)
            /\ Cardinality(Tagged("CRITICAL")) <= 1
            /\ Cardinality(Tagged("EXCELLENT")) <= 1

\* an entity exactly at 1.2 times a positive peer median, above the median
C6_Witness ==
    /\ view = "analysis"
    /\ RLess(Zero, cmp.peer_interest_median)
    /\ sel_r.audience_interest_rate = RMul(cmp.peer_interest_median, Rat(6, 5))
    /\ Tagged("CRITICAL") = {} /\ Tagged("EXCELLENT") = {}

\* ------------------------------------------------------------------- C7
\* C7: the header is the overall-positive line exactly when neither the
\* CRITICAL nor the IMPORTANT finding fired; otherwise it is the FOCUS-AREAS
\* line and its count is the number of CRITICAL plus IMPORTANT findings that
\* fired, whatever the category name or other text in the list.
C7_Header ==
    view = "analysis" =>
        LET fired == Cardinality(Tagged("CRITICAL")) + Cardinality(Tagged("IMPORTANT"))
        IN  IF fired = 0
            THEN tips[1].text[1] = "OVERALL"
            ELSE tips[1].text[1] = "FOCUS AREAS" /\ tips[1].args = <<fired>>

\* ------------------------------------------------------------------- C8
\* the place of a line in the rule order (0: a sub-line of a finding)
RuleRank(t) ==
    CASE t.text[1] \in {"OVERALL", "FOCUS AREAS"} -> 1
      [] t.text[1] \in {"CRITICAL", "EXCELLENT"} -> 2
      [] t.text[1] = "IMPORTANT" -> 3
      [] t.text[1] = "OPPORTUNITY" -> 4
      [] t.text[1] = "CONSIDER" -> 5
      [] t.text[1] = "Category Context:" -> 6
      [] OTHER -> 0

\* C8: the list has the header at index 0 (the first line), then the
\* findings in the rule order 1 (CRITICAL or POSITIVE), 2 (IMPORTANT),
\* 3 (OPPORTUNITY), 4 (CONSIDER), and always ends with the category context
\* and the size of the peer group.
C8_RuleOrder ==
    view = "analysis" =>
        LET n == Len(tips)
            heads == {i \in 1..n : RuleRank(tips[i]) > 0}
        IN  /\ n >= 3
            /\ RuleRank(tips[1]) = 1
            /\ \A i \in heads, j \in heads :
                   i < j => RuleRank(tips[i]) < RuleRank(tips[j])
            /\ RuleRank(tips[n - 1]) = 6
            /\ tips[n - 1].text = <<"Category Context:">> \o sel_r.category
            /\ tips[n].args = <<Len(peers)>>

\* all four rules fire for one entity
C8_Witness ==
    /\ view = "analysis"
    /\ Tagged("CRITICAL") # {} /\ Tagged("IMPORTANT") # {}
    /\ Tagged("OPPORTUNITY") # {} /\ Tagged("CONSIDER") # {}

\* ------------------------------------------------------------------- C9
\* the percent difference as the claim states it, for one metric
DiffAsClaimed(value, median, diff) ==
    /\ (median = Zero) => diff = Zero
    /\ RLess(Zero, median) =>
           RMul(diff, median) = RMul(RSub(value, median), RInt(100))
    /\ ~IsNaN(diff)

\* C9: for growth_boost_score, audience_interest_rate and views_per_upload,
\* a peer median of 0 gives a percent difference of 0 (never undefined), and
\* a positive median gives (value - median) / median * 100.
C9_PercentDiffGuard ==
    view = "analysis" =>
        /\ DiffAsClaimed(sel_r.growth_boost_score, cmp.peer_growth_median, cmp.growth_diff)
        /\ DiffAsClaimed(sel_r.audience_interest_rate, cmp.peer_interest_median,
                         cmp.interest_diff)
        /\ DiffAsClaimed(sel_r.views_per_upload, cmp.peer_views_median, cmp.views_diff)

\* peer median of audience_interest_rate 0, entity value 5, difference 0
C9_Witness ==
    /\ view = "analysis"
    /\ cmp.peer_interest_median = Zero
    /\ sel_r.audience_interest_rate = RInt(5)
    /\ cmp.interest_diff = Zero

\* ------------------------------------------------------------------ C10
SameCategory(r) == LET Is(q) == q.category = r.category IN Mask(df_t1, {x \in Range(df_t1) : Is(x)})

\* C10 as stated: the peers are the filtered records of the entity's
\* category with an age within 3 years (inclusive) of the entity's age, and
\* the whole category only if there is none.
C10_PeersWithin3 ==
    view = "analysis" =>
        LET a == sel_r.channel_age_years
            Near(q) == /\ q.category = sel_r.category
                       /\ a - PeerAgeWindow <= q.channel_age_years
                       /\ q.channel_age_years <= a + PeerAgeWindow
            near == Mask(df_t1, {x \in Range(df_t1) : Near(x)})
        IN  peers = IF near = <<>> THEN SameCategory(sel_r) ELSE near

\* C10, amended: the lower end of the age window is max(0, age - 3); only if
\* that window holds no record of the category is the peer group the whole
\* category.  Every peer is a record of the filtered table.
C10_PeersWindowFromZero ==
    view = "analysis" =>
        LET a == sel_r.channel_age_years
            Near(q) == /\ q.category = sel_r.category
                       /\ Max(0, a - PeerAgeWindow) <= q.channel_age_years
                       /\ q.channel_age_years <= a + PeerAgeWindow
            near == Mask(df_t1, {x \in Range(df_t1) : Near(x)})
        IN  /\ peers = IF near = <<>> THEN SameCategory(sel_r) ELSE near
            /\ \A i \in 1..Len(peers) : peers[i] \in Range(df_t1)

\* a record of the entity's category at most 3 years younger than the entity
\* is left out of the peers because its age is below zero, while a record
\* exactly 3 years older is kept, and a record of df outside the filter is
\* no peer
C10_Witness ==
    /\ view = "analysis"
    /\ \E i \in 1..Len(df_t1) :
           /\ df_t1[i].category = sel_r.category
           /\ df_t1[i].channel_age_years < 0
           /\ df_t1[i].channel_age_years >= sel_r.channel_age_years - PeerAgeWindow
           /\ df_t1[i] \notin Range(peers)
    /\ Len(peers) > 0

\* ------------------------------------------------------------------ C11
\* the values of a metric in the peer group, and whether the value of the
\* selected row is the only largest one of them / below every one of them
Series(k) == Column(peers, RadarMetrics[k])
UniqueMax(k) ==
    /\ \E i \in 1..Len(peers) : Series(k)[i] = sel_r[RadarMetrics[k]]
    /\ Cardinality({i \in 1..Len(peers) :
                       RLeq(sel_r[RadarMetrics[k]], Series(k)[i])}) = 1
BelowAll(k) ==
    \A i \in 1..Len(peers) : RLess(sel_r[RadarMetrics[k]], Series(k)[i])

\* C11: for a non-empty peer series every normalised radar value of the
\* selected row lies in [0,1], whether its value occurs in the series or
\* not; it is 1 when the value is the unique maximum of the series and 0
\* when the value is below every element of the series.
C11_PctNormUnitRange ==
    (sel_r # <<>> /\ peers # <<>>) =>
        \A k \in 1..3 :
            /\ RLeq(Zero, ch_scaled[k]) /\ RLeq(ch_scaled[k], RInt(1))
            /\ ~IsNaN(ch_scaled[k])
            /\ UniqueMax(k) => ch_scaled[k] = RInt(1)
            /\ BelowAll(k) => ch_scaled[k] = Zero

\* one metric of the row is the unique maximum of its series (exact match)
\* and another is below the whole series (fallback)
C11_Witness ==
    /\ sel_r # <<>> /\ peers # <<>>
    /\ \E k \in 1..3 : UniqueMax(k) /\ ch_scaled[k] = RInt(1)
    /\ \E k \in 1..3 : BelowAll(k) /\ ch_scaled[k] = Zero

\* ------------------------------------------------------------------ C12
\* the seven buckets as intervals: the lowest and the first excluded value
BucketIntervals ==
    << <<"0-4", 0, 5>>, <<"5-9", 5, 10>>, <<"10-14", 10, 15>>, <<"15-19", 15, 20>>,
       <<"20-24", 20, 25>>, <<"25-29", 25, 30>>, <<"30+", 30, Inf>> >>

\* C12: every record with a non-negative videos_last_30_days is assigned
\* exactly one of the seven buckets, the one whose interval holds the value
\* with the lower edge included and the upper edge excluded (0 and 4 in 0-4,
\* 5 in 5-9, 29 in 25-29, 30 and everything above in 30+).
C12_BucketClosedOpen ==
    \A i \in 1..Len(bucket_df) :
        LET v == df_t1[i].videos_last_30_days
            b == bucket_df[i].uploads_bucket
        IN  v >= 0 =>
              /\ Cardinality({k \in 1..7 : BucketIntervals[k][1] = b}) = 1
              /\ \A k \in 1..7 :
                     BucketIntervals[k][1] = b
                         <=> (BucketIntervals[k][2] <= v /\ v < BucketIntervals[k][3])

\* a record whose count is the lower edge of the second bucket
C12_Witness ==
    /\ view = "analysis" /\ Len(bucket_df) = 1
    /\ df_t1[1].videos_last_30_days = 5
    /\ bucket_df[1].uploads_bucket = "5-9"

\* ------------------------------------------------------------------ C13
\* the records of the bucketed table that carry the k-th label
InBucket(k) ==
    SelectSeqIdx(bucket_df,
        [i \in 1..Len(bucket_df) |-> bucket_df[i].uploads_bucket = BucketLabels[k]], 1)

\* C13: for a non-empty filtered table the posting-frequency aggregate has
\* exactly seven rows, one per bucket in the order 0-4, 5-9, 10-14, 15-19,
\* 20-24, 25-29, 30+; a bucket without a member has typical value 0 and
\* count 0, a bucket with members has the median views_last_30_days of its
\* members and the number of distinct channel names among them.
C13_SevenBuckets ==
    view = "analysis" =>
        /\ Len(ba) = 7
        /\ Column(ba, "uploads_bucket")
               = <<"0-4", "5-9", "10-14", "15-19", "20-24", "25-29", "30+">>
        /\ \A k \in 1..7 :
               IF InBucket(k) = <<>>
               THEN ba[k].typical_views = Zero /\ ba[k].ch_count = 0
               ELSE /\ ba[k].typical_views
                           = Median(IntColumn(InBucket(k), "views_last_30_days"))
                    /\ ba[k].ch_count
                           = Cardinality(Range(Column(InBucket(k), "channel_name")))

\* a bucket without a member next to a bucket holding two records of one
\* channel
C13_Witness ==
    /\ view = "analysis"
    /\ \E k \in 1..7 : InBucket(k) = <<>> /\ ba[k].ch_count = 0
    /\ \E k \in 1..7 : Len(InBucket(k)) = 2 /\ ba[k].ch_count = 1
    /\ \E k \in 2..7 : Len(InBucket(k)) = 1 /\ ba[k].ch_count = 1

\* ------------------------------------------------------------------ C14
\* the number of channels of the category c in the filtered table of tab 2
Channels(c) == Cardinality({i \in 1..Len(df_t2) : df_t2[i].category = c})

Ranked == Range(Column(cat_s, "category"))

\* C14: a category is in the category-difficulty ranking only if it has at
\* least 10 channels in the filtered table; with 9 channels it is left
\* out, with 10 it is ranked (at most 20 categories qualify here, so none
\* is cut by the tail).
C14_MinTenChannels ==
    view = "new_creators" =>
        /\ \A c \in Ranked : Channels(c) >= 10
        /\ \A c \in Range(Column(df_t2, "category")) :
               /\ Channels(c) = 9 => c \notin Ranked
               /\ Channels(c) = 10 => c \in Ranked

\* one category with exactly 10 channels, ranked, next to one with exactly
\* 9 channels left after the tier filter, not ranked
C14_Witness ==
    /\ view = "new_creators" /\ t_sub # AllTiers
    /\ \E c \in Ranked : Channels(c) = 10
    /\ \E c \in Range(Column(df_t2, "category")) : Channels(c) = 9 /\ c \notin Ranked

\* ------------------------------------------------------------------ C15
\* C15: when the filtered table of the Existing Creators view is empty the
\* run ends in the 'no channels match' state, with no channel selected, no
\* peer group, no radar values, no comparison, no recommendations and no
\* bucket aggregate; in the Marketers view an empty top list leaves no
\* channel selected and no comparison computed.
C15_EmptyShortCircuit ==
    /\ (Drawn /\ selected_tab = T1 /\ df_t1 = <<>>) =>
           /\ view = "no_match"
           /\ sel_ch = "" /\ sel_r = <<>> /\ peers = <<>>
           /\ ch_scaled = <<>> /\ peer_scaled = <<>> /\ cmp = <<>>
           /\ tips = <<>> /\ bucket_df = <<>> /\ ba = <<>>
    /\ view = "no_match" => (selected_tab = T1 /\ df_t1 = <<>>)
    /\ (view = "marketers" /\ top = <<>>) => (sel = "" /\ comparison = <<>>)
    /\ (view = "marketers" /\ top # <<>>) => (sel # "" /\ comparison # <<>>)

\* the filters of the Existing Creators view leave no record of a table
\* that has records
C15_Witness ==
    /\ view = "no_match" /\ df # <<>> /\ df_t1 = <<>>
    /\ t_cat # {} /\ t_cntry # {}
    /\ ba = <<>> /\ tips = <<>>

\* ------------------------------------------------------------------ C16
\* C16: videos_last_30_days is coerced to a non-negative number at ingest:
\* the loaded table holds no negative count, so the selected row, its peers,
\* the peer median of the upload frequency and the projected view gain are
\* never computed from one.
C16_UploadsCoercedAtIngest ==
    Drawn =>
        /\ \A i \in 1..Len(df) : df[i].videos_last_30_days >= 0
        /\ view = "analysis" =>
               /\ sel_r.videos_last_30_days >= 0
               /\ \A i \in 1..Len(peers) : peers[i].videos_last_30_days >= 0
               /\ RLeq(Zero, cmp.peer_upload_freq)
               /\ \A i \in 1..Len(tips) :
                      Contains(tips[i].text, "   * Potential gain:")
                          => tips[i].args[1] >= 0

\* ------------------------------------------------------------------ C17
\* C17: a record whose cost_effectiveness is undefined (video_count_log1p
\* missing) is rejected when the table is loaded: no undefined
\* cost_effectiveness reaches the per-channel mean, the top-15 list or the
\* average of the filtered set used in the comparison.
C17_UndefinedRejectedAtLoad ==
    Drawn =>
        /\ \A i \in 1..Len(df) : ~IsNaN(df[i].video_count_log1p)
        /\ view = "marketers" =>
               /\ \A i \in 1..Len(df_t3) : ~IsNaN(df_t3[i].cost_effectiveness)
               /\ \A i \in 1..Len(agg) : ~IsNaN(agg[i].cost_effectiveness)
               /\ \A i \in 1..Len(top) : ~IsNaN(top[i].cost_effectiveness)
               /\ comparison # <<>> => ~IsNaN(comparison.avg_c)

\* ------------------------------------------------------------------ C18
\* C18: country normalisation is total and never fatal: a mapped code gets
\* its display name, a code absent from the map keeps the raw code, a
\* missing country gets 'Unknown'; the load always completes, with at most
\* one warning that lists at most 5 distinct unmapped codes, and with none
\* when every code is mapped or 'Unknown'.
C18_CountryNormalisationTotal ==
    loaded =>
        /\ view # "load_error"
        /\ \A i \in 1..Len(df) :
               df[i].country_name =
                   IF df[i].country \in DOMAIN COUNTRY_MAP THEN COUNTRY_MAP[df[i].country]
                   ELSE IF df[i].country = NaN THEN "Unknown"
                   ELSE df[i].country
        /\ Len(load_warning) <= 1
        /\ \A w \in Range(load_warning) :
               /\ Len(w.listed) <= 5
               /\ Cardinality(Range(w.listed)) = Len(w.listed)
               /\ Range(w.listed) \subseteq Range(Column(df, "country")) \ DOMAIN COUNTRY_MAP
        /\ (\A i \in 1..Len(df) : df[i].country \in DOMAIN COUNTRY_MAP)
               => load_warning = <<>>

\* ------------------------------------------------------------------ C19
\* C19: with an empty peer group the benchmark still completes: the three
\* percent differences (growth, interest, views per upload) are 0 and the
\* three normalised radar values of the selected row are 0, not undefined.
C19_EmptyPeerGroup ==
    (sel_r # <<>> /\ peers = <<>>) =>
        /\ cmp.growth_diff = Zero
        /\ cmp.interest_diff = Zero
        /\ cmp.views_diff = Zero
        /\ ch_scaled = <<Zero, Zero, Zero>>
        /\ Len(tips) = 3

\* a row with positive metrics benchmarked against no peer
C19_Witness ==
    /\ sel_r # <<>> /\ peers = <<>>
    /\ RLess(Zero, sel_r.growth_boost_score)
    /\ RLess(Zero, sel_r.audience_interest_rate)
    /\ RLess(Zero, sel_r.views_per_upload)
    /\ IsNaN(cmp.peer_growth_median)

\* ------------------------------------------------------------------ C20
\* C20: views_per_upload is views_last_30_days / videos_last_30_days when
\* videos_last_30_days > 0 and views_last_30_days itself when it is 0; it
\* is defined for every record, and a record without uploads has the value
\* of a record with the same views and exactly one upload.
C20_ViewsPerUpload ==
    \A i \in 1..Len(df_t1) :
        LET r == df_t1[i]
            v == r.views_per_upload
        IN  /\ ~IsNaN(v)
            /\ r.videos_last_30_days > 0
                   => v[1] * r.videos_last_30_days = r.views_last_30_days * v[2]
            /\ r.videos_last_30_days \in {0, 1} => v = <<r.views_last_30_days, 1>>

\* a record with views and no upload in the last 30 days
C20_Witness ==
    /\ view = "analysis"
    /\ sel_r.videos_last_30_days = 0 /\ sel_r.views_last_30_days = 7
    /\ sel_r.views_per_upload = RInt(7)

\* ------------------------------------------------------------------ C21
\* the positions of the peer series of metric k that hold the value of the
\* selected row, and those that hold a smaller one
EqualTo(k) ==
    {i \in 1..Len(peers) : Series(k)[i] = sel_r[RadarMetrics[k]]}
LessThan(k) ==
    {i \in 1..Len(peers) : RLess(Series(k)[i], sel_r[RadarMetrics[k]])}

\* C21: when the value of the selected row occurs in the peer series its
\* radar value is the average of the 1-based sorted positions of the equal
\* elements over the length of the series; when it does not occur the value
\* is the number of strictly smaller elements over max(1, length), which is
\* 0 for an empty series.
C21_PctNormBranches ==
    sel_r # <<>> =>
        \A k \in 1..3 :
            LET e == Cardinality(EqualTo(k))
                l == Cardinality(LessThan(k))
                n == Len(peers)
            IN  IF e > 0
                THEN ch_scaled[k] = Rat(2 * e * l + e * (e + 1), 2 * e * n)
                ELSE /\ ch_scaled[k] = Rat(l, IF n = 0 THEN 1 ELSE n)
                     /\ n = 0 => ch_scaled[k] = Zero

\* one metric of the row is tied with two peers above a smaller one, and
\* another lies between the values of the peers without occurring among them
C21_Witness ==
    /\ sel_r # <<>> /\ Len(peers) = 3
    /\ \E k \in 1..3 : Cardinality(EqualTo(k)) = 2 /\ Cardinality(LessThan(k)) = 1
    /\ \E k \in 1..3 : EqualTo(k) = {} /\ Cardinality(LessThan(k)) = 1

\* ------------------------------------------------------------------ C22
\* C22: IMPORTANT is emitted exactly when the entity's views_per_upload is
\* strictly below the peer median, OPPORTUNITY exactly when its
\* growth_boost_score is, CONSIDER exactly when its videos_last_30_days is
\* strictly below the peer median of videos_last_30_days and strictly below
\* 4; each whatever the other rules and rule 1 do, and none of them for an
\* entity equal to the median of its metric.
C22_RulesIndependent ==
    view = "analysis" =>
        LET uploads == RInt(sel_r.videos_last_30_days)
        IN  /\ (Tagged("IMPORTANT") # {})
                   <=> RLess(sel_r.views_per_upload, cmp.peer_views_median)
            /\ (Tagged("OPPORTUNITY") # {})
                   <=> RLess(sel_r.growth_boost_score, cmp.peer_growth_median)
            /\ (Tagged("CONSIDER") # {})
                   <=> (RLess(uploads, cmp.peer_upload_freq) /\ RLess(uploads, RInt(4)))
            /\ sel_r.views_per_upload = cmp.peer_views_median => Tagged("IMPORTANT") = {}
            /\ sel_r.growth_boost_score = cmp.peer_growth_median => Tagged("OPPORTUNITY") = {}
            /\ uploads = cmp.peer_upload_freq => Tagged("CONSIDER") = {}
            /\ Cardinality(Tagged("IMPORTANT")) <= 1
            /\ Cardinality(Tagged("OPPORTUNITY")) <= 1
            /\ Cardinality(Tagged("CONSIDER")) <= 1

\* rule 2 fires alone: the entity is below the median in views per upload
\* while rules 1, 3 and 4 stay silent
C22_Witness ==
    /\ view = "analysis" /\ Len(peers) > 1
    /\ Tagged("IMPORTANT") # {}
    /\ Tagged("OPPORTUNITY") = {} /\ Tagged("CONSIDER") = {} /\ Tagged("CRITICAL") = {}

\* ------------------------------------------------------------------ C23
\* the lines of the list that print the projected gain
GainLines == {i \in 1..Len(tips) : Contains(tips[i].text, "   * Potential gain:")}

\* C23: whenever the IMPORTANT finding is emitted, the projected monthly
\* view gain it prints is (peer median of views_per_upload - the entity's
\* views_per_upload) * the entity's videos_last_30_days, which is
\* non-negative, and 0 for an entity without uploads in the last 30 days.
C23_ProjectedGain ==
    (view = "analysis" /\ Tagged("IMPORTANT") # {}) =>
        /\ Cardinality(GainLines) = 1
        /\ \A i \in GainLines :
               LET gain == RMul(RSub(cmp.peer_views_median, sel_r.views_per_upload),
                                RInt(sel_r.videos_last_30_days))
               IN  /\ tips[i].args[1] = Fmt(gain, 1)
                   /\ RLeq(Zero, gain)
                   /\ tips[i].args[1] >= 0
                   /\ sel_r.videos_last_30_days = 0 => tips[i].args[1] = 0


\* the ranking of a grouped table, for every grouped table of up to
\* MaxCategories categories
RankGroups ==
    \E g \in GroupedTables :
        /\ cat_g = <<>>
        /\ cat_g' = g
        /\ cat_s' = RankCategories(g)
        /\ UNCHANGED <<df, loaded, load_warning, selected_tab, t_cat, t_cntry,
                       t_sub, t_age, sel_ch, view, df_t1, df_t2, df_t3, sel_r,
                       peers, ch_scaled, peer_scaled, cmp, tips, bucket_df, ba,
                       top_categories, geo_data, geo_data_top, agg, top, sel,
                       comparison>>

NextRank == RankGroups

SpecRank == Init /\ [][NextRank]_vars

\* the categories of the grouped table with at least MinCategoryChannels channels
QualifyingGroups ==
    { i \in 1..Len(cat_g) : cat_g[i].channel_name >= MinCategoryChannels }

\* the positions of the grouped table that the ranking lists
ListedGroups == { i \in 1..Len(cat_g) : cat_g[i] \in Range(cat_s) }

\* C24: the category-difficulty ranking lists at most 20 categories, all of
\* them qualifying; when more qualify, the listed are the hardest ones: no
\* category left out has a larger mean subscriber count than a listed one;
\* the list is in ascending order of mean subscriber count.
C24_HardestTwenty ==
    /\ Len(cat_s) <= 20
    /\ Len(cat_s) = Cardinality(ListedGroups)
    /\ ListedGroups \subseteq QualifyingGroups
    /\ Cardinality(QualifyingGroups) <= 20 => ListedGroups = QualifyingGroups
    /\ Cardinality(QualifyingGroups) > 20 => Len(cat_s) = 20
    /\ \A i \in ListedGroups, j \in QualifyingGroups \ ListedGroups :
           RLeq(cat_g[j].subscriber_count, cat_g[i].subscriber_count)
    /\ \A i \in 1..Len(cat_s), j \in 1..Len(cat_s) :
           i < j => RLeq(cat_s[i].subscriber_count, cat_s[j].subscriber_count)

C24_Witness ==
    /\ Cardinality(QualifyingGroups) > 20
    /\ Len(cat_s) = 20
    /\ \E i \in ListedGroups, j \in QualifyingGroups \ ListedGroups :
           RLess(cat_g[j].subscriber_count, cat_g[i].subscriber_count)


\* tables of more than TopN channels: the cut of the cost-effectiveness ranking
NextSponsor ==
    \/ Upload(SponsorTables)
    \/ SelectTab
    \/ SelectSponsored

SpecSponsor == Init /\ [][NextSponsor]_vars

\* a >= b as floating-point comparison: false when either side is undefined
GeqDefined(a, b) == ~IsNaN(a) /\ ~IsNaN(b) /\ RLeq(b, a)

\* the records of the filtered table of the channel n
RecordsOf(n) == { i \in 1..Len(df_t3) : df_t3[i].channel_name = n }

\* the largest value of the field f over the records of the channel n
LargestOf(n, f) ==
    CHOOSE v \in { df_t3[i][f] : i \in RecordsOf(n) } :
        \A i \in RecordsOf(n) : df_t3[i][f] <= v

\* the positions of agg that the ranking lists
ListedChannels ==
    { i \in 1..Len(agg) : agg[i].channel_name \in Range(Column(top, "channel_name")) }

\* C25: the cost-effectiveness ranking has one row per distinct channel of
\* the filtered table (max of the magnitude metrics, mean of
\* cost_effectiveness), lists at most 15 channels, every listed channel's
\* mean cost_effectiveness is >= that of every channel left out, and the
\* channel offered for comparison is one of the listed channels.
C25_TopFifteen ==
    view = "marketers" =>
        /\ Range(Column(agg, "channel_name")) = Range(Column(df_t3, "channel_name"))
        /\ Len(agg) = Cardinality(Range(Column(df_t3, "channel_name")))
        /\ \A i \in 1..Len(agg) :
               LET n == agg[i].channel_name
               IN  /\ agg[i].subscriber_count = LargestOf(n, "subscriber_count")
                   /\ agg[i].views_last_30_days = LargestOf(n, "views_last_30_days")
                   /\ agg[i].video_count = LargestOf(n, "video_count")
                   /\ agg[i].view_count = LargestOf(n, "view_count")
                   /\ agg[i].cost_effectiveness =
                          Mean(Column(SelectSeqIdx(df_t3,
                                   [j \in 1..Len(df_t3) |-> j \in RecordsOf(n)], 1),
                               "cost_effectiveness"))
        /\ Len(top) <= 15
        /\ Range(top) \subseteq Range(agg)
        /\ Len(top) = Cardinality(ListedChannels)
        /\ \A i \in ListedChannels, j \in (1..Len(agg)) \ ListedChannels :
               GeqDefined(agg[i].cost_effectiveness, agg[j].cost_effectiveness)
        /\ Len(top) > 0 => sel \in Range(Column(top, "channel_name"))

\* C25 over the tables in which every cost_effectiveness is defined
C25_TopFifteen_Defined ==
    (\A i \in 1..Len(df_t3) : ~IsNaN(df_t3[i].cost_effectiveness)) => C25_TopFifteen

\* more than 15 channels, one with two records, a channel left out with a
\* smaller cost_effectiveness than a listed one, and a channel picked
C25_Witness ==
    /\ view = "marketers"
    /\ \A i \in 1..Len(df_t3) : ~IsNaN(df_t3[i].cost_effectiveness)
    /\ Len(agg) > 15 /\ Len(df_t3) > Len(agg)
    /\ \E i \in ListedChannels, j \in (1..Len(agg)) \ ListedChannels :
           RLess(agg[j].cost_effectiveness, agg[i].cost_effectiveness)
    /\ sel # top[1].channel_name


\* tables of more than TopCategoryCount categories and more than GeoPairs
\* (country, category) pairs
NextGeo ==
    \/ Upload(GeoTables)
    \/ SelectTab

SpecGeo == Init /\ [][NextGeo]_vars

\* the number of records of the filtered table of the category c
Frequency_(c) == Cardinality({ i \in 1..Len(df_t2) : df_t2[i].category = c })

\* the records of the filtered table of the pair (country, category)
PairRecords(c, k) ==
    SelectSeqIdx(df_t2,
        [i \in 1..Len(df_t2) |-> df_t2[i].country = c /\ df_t2[i].category = k], 1)

\* a million times the score of the pair, from its records
PairScoreMillionths(c, k) ==
    RAdd(Mean(IntColumn(PairRecords(c, k), "view_count")),
         RMul(RInt(10), Mean(IntColumn(PairRecords(c, k), "subscriber_count"))))

\* the (country, category) pairs of the filtered table
Pairs == { <<df_t2[i].country, df_t2[i].category>> : i \in 1..Len(df_t2) }

ListedPairs ==
    { <<geo_data_top[i].country, geo_data_top[i].category>> : i \in 1..Len(geo_data_top) }

EligiblePairs == { p \in Pairs : p[2] \in Range(top_categories) }

\* C26: the geographic output lists at most 25 (country, category) pairs;
\* every listed pair's category is among the 10 most frequent categories of
\* the filtered table; each pair's score is mean view_count / 1e6 + mean
\* subscriber_count / 1e5 over the pair's records; every listed pair's score
\* is >= the score of every eligible pair left out.
C26_GeoTopPairs ==
    view = "new_creators" =>
        LET cats == Range(Column(df_t2, "category"))
        IN  /\ Len(geo_data_top) <= 25
            /\ Cardinality(ListedPairs) = Len(geo_data_top)
            /\ Range(top_categories) \subseteq cats
            /\ Len(top_categories) = Min(10, Cardinality(cats))
            /\ \A c \in Range(top_categories), x \in cats \ Range(top_categories) :
                   Frequency_(c) >= Frequency_(x)
            /\ ListedPairs \subseteq EligiblePairs
            /\ Cardinality(EligiblePairs) <= 25 => ListedPairs = EligiblePairs
            /\ Cardinality(EligiblePairs) > 25 => Len(geo_data_top) = 25
            /\ \A i \in 1..Len(geo_data_top) :
                   LET m == PairRecords(geo_data_top[i].country, geo_data_top[i].category)
                   IN  geo_data_top[i].performance_score =
                           RAddLcd(RDiv(Mean(IntColumn(m, "view_count")), RInt(1000000)),
                                   RDiv(Mean(IntColumn(m, "subscriber_count")), RInt(100000)))
            /\ \A p \in ListedPairs, q \in EligiblePairs \ ListedPairs :
                   RLeq(PairScoreMillionths(q[1], q[2]), PairScoreMillionths(p[1], p[2]))

\* more than 10 categories and more than 25 eligible pairs; a pair with two
\* records is listed, an eligible pair with a strictly smaller score is left
\* out, and a pair of a less frequent category with a larger score than a
\* listed one is left out too
C26_Witness ==
    /\ view = "new_creators"
    /\ Cardinality(Range(Column(df_t2, "category"))) > 10
    /\ Cardinality(EligiblePairs) > 25
    /\ \E p \in ListedPairs : Len(PairRecords(p[1], p[2])) = 2
    /\ \E p \in ListedPairs, q \in EligiblePairs \ ListedPairs :
           RLess(PairScoreMillionths(q[1], q[2]), PairScoreMillionths(p[1], p[2]))
    /\ \E p \in ListedPairs, q \in Pairs \ EligiblePairs :
           RLess(PairScoreMillionths(p[1], p[2]), PairScoreMillionths(q[1], q[2]))


\* ------------------------------------------------------------------ C30
\* the New Creators view with the widgets as they are first drawn
DefaultCriteria ==
    /\ view = "new_creators"
    /\ t_cat = {} /\ t_cntry = {} /\ t_sub = AllTiers /\ t_age = DefaultAge(df)

\* C30: in the New Creators view with its default criteria (no category, no
\* country, all five tiers, the full age range) the filtered table is the
\* whole loaded table, records with subscriber_count = 0 included: all five
\* tiers selected is the same as no tier selected.
C30_DefaultKeepsAll ==
    DefaultCriteria =>
        /\ Strip(df_t2) = df
        /\ Strip(df_t2) = FilterAge(FilterSub(df, {}), t_age)


\* ------------------------------------------------------------------ C27
\* the records of the filtered table in the peer window of the selected row
InPeerWindow ==
    LET a == sel_r.channel_age_years
        Near(q) == /\ q.category = sel_r.category
                   /\ q.channel_age_years >= Max(0, a - 3)
                   /\ q.channel_age_years <= a + 3
    IN  Mask(df_t1, {x \in Range(df_t1) : Near(x)})

C28_PeerAggregateBySize ==
    (sel_r # <<>> /\ Len(peers) >= 1) =>
        LET n == Len(peers)
        IN  /\ \A k \in 1..3 :
                   /\ peer_scaled[k] = RDiv(RSum([i \in 1..n |-> RankPct(Series(k), i)]), RInt(n))
                   /\ peer_scaled[k] = Rat(n + 1, 2 * n)
            /\ peer_scaled[1] = peer_scaled[2] /\ peer_scaled[2] = peer_scaled[3]

\* three peers: one metric with all values different and one with two tied
\* values
C28_Witness ==
    /\ sel_r # <<>> /\ Len(peers) = 3
    /\ \E k \in 1..3 : Cardinality(Range(Series(k))) = 3
    /\ \E k \in 1..3 : Cardinality(Range(Series(k))) = 2
    /\ peer_scaled = <<Rat(2, 3), Rat(2, 3), Rat(2, 3)>>


\* ------------------------------------------------------------------ C29
\* tables of entities a small fraction of a percent below their peer median
NextGap ==
    \/ Upload(GapTables)
    \/ SelectChannel

SpecGap == Init /\ [][NextGap]_vars

\* the three below-peers findings: the tag, the median and the difference
GapRules ==
    << <<"CRITICAL", "peer_interest_median", "interest_diff">>,
       <<"IMPORTANT", "peer_views_median", "views_diff">>,
       <<"OPPORTUNITY", "peer_growth_median", "growth_diff">> >>

NonNegativeMetrics ==
    \A k \in 1..3 : RLeq(Zero, sel_r[RadarMetrics[k]])

\* C29 as stated: whenever a CRITICAL, IMPORTANT or OPPORTUNITY finding is
\* emitted for an entity with non-negative metrics, the gap percentage the
\* finding reports is strictly greater than 0 and at most 100 (the median is
\* positive, so the zero-median guard does not apply).
C29_ReportedGapPositive ==
    (view = "analysis" /\ NonNegativeMetrics) =>
        \A g \in 1..3 : \A i \in Tagged(GapRules[g][1]) :
            /\ RLess(Zero, cmp[GapRules[g][2]])
            /\ tips[i].args[1] > 0
            /\ tips[i].args[1] <= 1000

\* C29 amended: the gap computed for an emitted below-peers finding is
\* strictly greater than 0 and at most 100 and the median is positive; the
\* gap printed in the finding is that gap rounded to one decimal, which lies
\* between 0.0 and 100.0, both included.
C29_ComputedGapPositive ==
    (view = "analysis" /\ NonNegativeMetrics) =>
        \A g \in 1..3 : \A i \in Tagged(GapRules[g][1]) :
            LET gap == RAbs(cmp[GapRules[g][3]])
            IN  /\ RLess(Zero, cmp[GapRules[g][2]])
                /\ RLess(Zero, gap) /\ RLeq(gap, RInt(100))
                /\ tips[i].args[1] = Fmt(gap, 10)
                /\ tips[i].args[1] >= 0
                /\ tips[i].args[1] <= 1000

\* an entity 1/30 of a percent below the median of its peers, whose three
\* findings print a gap of 0.0
C29_Witness ==
    /\ view = "analysis" /\ NonNegativeMetrics
    /\ \A g \in 1..3 :
           /\ Tagged(GapRules[g][1]) # {}
           /\ RAbs(cmp[GapRules[g][3]]) = Rat(1, 30)
           /\ \A i \in Tagged(GapRules[g][1]) : tips[i].args[1] = 0

=============================================================================
